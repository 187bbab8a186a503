--------------------------- MODULE DriftCheckProofs ---------------------------
(****************************************************************************)
(* Whatever the messages, the migrations and the failures are: the two      *)
(* comparisons of the drift commands agree, "ok" means no drift, a migration *)
(* that does what diff asks for satisfies check, and no container is left.  *)
(****************************************************************************)
EXTENDS DriftCheck, Foundations

(****************************************************************************)
(* Comparisons.                                                             *)
(****************************************************************************)
\* diffNamed prints no line exactly if the two sides have the same things
\* (migration_scaffold.go, diffNamed).
LEMMA NoLineMeansSameThings ==
  ASSUME NEW kind, NEW current, NEW target
  PROVE  DiffNamed(kind, current, target) = {} <=> current = target
<1>1. ASSUME DiffNamed(kind, current, target) = {}
      PROVE  current = target
  <2>1. \A m \in Names(current) \cup Names(target) : Named(current, m) = Named(target, m)
    BY <1>1 DEF DiffNamed
  <2>2. \A x \in current : x \in target
    <3>1. TAKE x \in current
    <3>2. x.name \in Names(current) /\ x \in Named(current, x.name)
      BY DEF Names, Named
    <3>3. x \in Named(target, x.name)
      BY <2>1, <3>2
    <3>. QED BY <3>3 DEF Named
  <2>3. \A x \in target : x \in current
    <3>1. TAKE x \in target
    <3>2. x.name \in Names(target) /\ x \in Named(target, x.name)
      BY DEF Names, Named
    <3>3. x \in Named(current, x.name)
      BY <2>1, <3>2
    <3>. QED BY <3>3 DEF Named
  <2>. QED BY <2>2, <2>3
<1>2. ASSUME current = target
      PROVE  DiffNamed(kind, current, target) = {}
  BY <1>2 DEF DiffNamed
<1>. QED BY <1>1, <1>2

\* What a snapshot has is what the delta goes through
\* (check.go, TableSnapshot; migration_scaffold.go, computeTableDelta).
LEMMA SnapshotParts ==
  ASSUME NEW table
  PROVE  /\ DOMAIN SnapshotTable(table) = Kinds \cup Whole
         /\ SnapshotTable(table) = [k \in Kinds \cup Whole |-> SnapshotTable(table)[k]]
BY DEF SnapshotTable, NoTable, Kinds, Whole

\* Of any two tables, check's comparison finds a difference exactly if diff
\* prints a line (cmp.Diff in runCheck, computeTableDelta).
THEOREM CheckAndDiffAgree ==
  ASSUME NEW current, NEW target
  PROVE  SnapshotTable(target) # SnapshotTable(current)
           <=> ComputeTableDelta(SnapshotTable(current), SnapshotTable(target)) # {}
<1> DEFINE C == SnapshotTable(current)
           T == SnapshotTable(target)
<1>1. ASSUME ComputeTableDelta(C, T) = {}
      PROVE  C = T
  <2>1. \A k \in Kinds : DiffNamed(k, C[k], T[k]) = {}
    BY <1>1 DEF ComputeTableDelta
  <2>2. \A k \in Kinds : C[k] = T[k]
    <3>1. TAKE k \in Kinds
    <3>. QED BY <2>1, NoLineMeansSameThings
  <2>3. {w \in Whole : C[w] # T[w]} = {}
    BY <1>1 DEF ComputeTableDelta
  <2>4. \A k \in Whole : C[k] = T[k]
    BY <2>3
  <2>5. \A k \in Kinds \cup Whole : C[k] = T[k]
    BY <2>2, <2>4
  <2>6. /\ C = [k \in Kinds \cup Whole |-> C[k]]
        /\ T = [k \in Kinds \cup Whole |-> T[k]]
    BY SnapshotParts
  <2>. HIDE DEF C, T
  <2>. QED BY <2>5, <2>6
<1>2. ASSUME C = T
      PROVE  ComputeTableDelta(C, T) = {}
  <2>1. \A k \in Kinds : DiffNamed(k, C[k], T[k]) = {}
    <3>1. TAKE k \in Kinds
    <3>. QED BY <1>2, NoLineMeansSameThings
  <2>2. {w \in Whole : C[w] # T[w]} = {}
    BY <1>2
  <2>. HIDE DEF C, T
  <2>. QED BY <2>1, <2>2 DEF ComputeTableDelta
<1>. QED BY <1>1, <1>2

\* The commands compare by nothing else, so their verdicts agree in every state.
THEOREM VerdictsAgree == Spec => []DeltaIsWhatCheckCompares
<1>1. DeltaIsWhatCheckCompares
  BY CheckAndDiffAgree DEF DeltaIsWhatCheckCompares, Snapshot
<1>. QED BY <1>1, PTL

(****************************************************************************)
(* Containers.                                                              *)
(****************************************************************************)
\* A container runs only while its command does, and is left behind only by
\* one whose deadline has passed (runCheck, teardown).
ContainersInv ==
  /\ pg \in [Sides -> {"none", "running", "lost", "left", "terminated"}]
  /\ pc = "idle" => \A s \in Sides : pg[s] # "running"
  /\ \A s \in Sides : pg[s] = "left" => expired

LEMMA BeginKeepsContainersInv ==
  ASSUME NEW c, NEW scope, Begin(c, scope)
  PROVE  ContainersInv'
BY DEF Begin, ContainersInv

\* A container is handed over only to a command that has not ended.
LEMMA StartKeepsContainersInv ==
  ASSUME ContainersInv, NEW s \in Sides, StartPostgres(s)
  PROVE  ContainersInv'
BY DEF StartPostgres, ContainersInv, dev

\* The command ends once no container is left to terminate.
LEMMA TeardownKeepsContainersInv ==
  ASSUME ContainersInv, Teardown
  PROVE  ContainersInv'
<1> DEFINE order == IF cmd = "check" THEN <<"migrations", "ddl">> ELSE <<"ddl", "migrations">>
           Handed == {s \in Sides : pg[s] = "running"}
           next == IF order[1] \in Handed THEN order[1] ELSE order[2]
<1>1. CASE Handed = {}
  BY <1>1 DEF Teardown, ContainersInv
<1>2. CASE Handed # {}
  <2>1. next \in Sides
    BY DEF Sides
  <2>2. /\ pc = "teardown" /\ pc' = pc /\ expired' = expired
        /\ pg' = [pg EXCEPT ![next] = IF expired THEN "left" ELSE "terminated"]
    BY <1>2 DEF Teardown
  <2>. HIDE DEF next, Handed
  <2>. QED BY <2>1, <2>2 DEF ContainersInv
<1>. QED BY <1>1, <1>2

\* No step of the developer, of a command or of the clock breaks it.
LEMMA NextKeepsContainersInv == ContainersInv /\ [Next]_vars => ContainersInv'
<1> SUFFICES ASSUME ContainersInv, [Next]_vars PROVE ContainersInv'
  OBVIOUS
<1>1. CASE \E t \in Tables : EditMessage(t)
  BY <1>1 DEF EditMessage, ContainersInv, run
<1>2. CASE WriteMigration
  BY <1>2 DEF WriteMigration, ContainersInv, run
<1>3. CASE \E c \in {"check", "diff"}, scope \in Scopes :
             RunWithoutDatabases(c, scope) \/ RunWithDatabases(c, scope)
  BY <1>3, BeginKeepsContainersInv DEF RunWithoutDatabases, RunWithDatabases
<1>4. CASE \E s \in Sides : StartPostgres(s)
  BY <1>4, StartKeepsContainersInv
<1>5. CASE \E s \in Sides : PrepareDatabase(s)
  BY <1>5 DEF PrepareDatabase, ContainersInv
<1>6. CASE ApplyDDLFiles
  BY <1>6 DEF ApplyDDLFiles, ContainersInv
<1>7. CASE ApplyMigrations
  BY <1>7 DEF ApplyMigrations, ContainersInv
<1>8. CASE AwaitBoth
  BY <1>8 DEF AwaitBoth, ContainersInv
<1>9. CASE CompareTable
  BY <1>9 DEF CompareTable, ContainersInv
<1>10. CASE Report
  BY <1>10 DEF Report, ContainersInv
<1>11. CASE Teardown
  BY <1>11, TeardownKeepsContainersInv
<1>12. CASE Expire
  BY <1>12 DEF Expire, ContainersInv
<1>13. CASE UNCHANGED vars
  BY <1>13 DEF vars, run, ContainersInv
<1>. QED
  BY <1>1, <1>2, <1>3, <1>4, <1>5, <1>6, <1>7, <1>8, <1>9, <1>10, <1>11, <1>12, <1>13
  DEF Next, Developer, Command

\* The inductive invariant of the containers.
THEOREM ContainersInvariant == Spec => []ContainersInv
<1>1. Init => ContainersInv
  BY DEF Init, ContainersInv
<1>. QED BY <1>1, NextKeepsContainersInv, PTL DEF Spec

\* Every container handed over is terminated when the command ends within its
\* deadline, whichever side failed and wherever (the deferred teardowns).
THEOREM NoContainerIsLeft == Spec => []ContainersAreTerminated
<1>1. ContainersInv => ContainersAreTerminated
  BY DEF ContainersInv, ContainersAreTerminated
<1>. QED BY <1>1, ContainersInvariant, PTL

(****************************************************************************)
(* The invariant.                                                           *)
(****************************************************************************)
(* The shapes a table may have in a database: each part is of one of the    *)
(* message's shapes, as a migration only ever adds what some DDL file has.  *)
Kin(t) ==
  {s \in Table : /\ s.columns \subseteq UNION {x.columns : x \in Shapes[t]}
                 /\ \E x \in Shapes[t] : s.partition = x.partition}

IsStatement(stmt) ==
  /\ stmt = [table |-> stmt.table, shape |-> stmt.shape]
  /\ stmt.table \in Tables /\ stmt.shape \in Kin(stmt.table)

IsScript(stmts) == IsSeq(stmts) /\ \A k \in DOMAIN stmts : IsStatement(stmts[k])

IsDatabase(d) ==
  /\ d = [t \in Tables |-> d[t]]
  /\ \A t \in Tables : d[t] \in Kin(t) \cup {Absent}

TypeInv ==
  /\ ddl = [t \in Tables |-> ddl[t]] /\ \A t \in Tables : ddl[t] \in Shapes[t] \cup {Absent}
  /\ edits \in 0..MaxEdits
  /\ IsSeq(chain) /\ Len(chain) <= MaxMigrations /\ \A k \in DOMAIN chain : IsScript(chain[k])
  /\ scaffold = [stmts |-> scaffold.stmts, ddl |-> scaffold.ddl, listed |-> scaffold.listed]
  /\ IsScript(scaffold.stmts) /\ scaffold.listed \subseteq Tables
  /\ settled \subseteq Tables
  /\ pc \in {"idle", "bootstrap", "compare", "teardown"} /\ cmd \in {"check", "diff"}
  /\ listed \subseteq Tables /\ failures \subseteq listed /\ todo \subseteq listed
  /\ stage \in [Sides -> {"start", "prepare", "apply", "done", "failed"}]
  /\ pg \in [Sides -> {"none", "running", "lost", "left", "terminated"}]
  /\ verdict \in {"none", "ok", "drift", "scaffold", "error"}
  /\ db = [s \in Sides |-> db[s]] /\ \A s \in Sides : IsDatabase(db[s])

(* The DDL files of the tables can be put in an order.                      *)
Acyclic(files, ts) ==
  \E s \in SetToSeqs(ts) :
    \A i, j \in DOMAIN s : s[j] \in Targets(files[s[i]]) => j <= i

(* What the DDL files and what the migrations make.                         *)
Declared == Run(Nothing, Role, Statements(listed))
Migrated == Run(Nothing, Role, FlattenSeq(chain))

(* What a command knows of the two databases, and its verdict with it.      *)
CommandInv ==
  pc # "idle" =>
    /\ listed # {} /\ \A t \in listed : ddl[t] # Absent
    /\ stage["ddl"] = "done" => Acyclic(ddl, listed) /\ Declared.ok /\ db["ddl"] = Declared.db
    /\ stage["ddl"] = "failed" => broken \/ ~Acyclic(ddl, listed) \/ ~Declared.ok
    /\ stage["migrations"] = "done" => Migrated.ok /\ db["migrations"] = Migrated.db
    /\ stage["migrations"] = "failed" => broken \/ ~Migrated.ok
    /\ pc = "compare" \/ (pc = "teardown" /\ verdict # "error") =>
         \A s \in Sides : stage[s] = "done"
    /\ pc = "bootstrap" => todo = listed /\ failures = {}
    /\ pc = "compare" => failures = {t \in listed \ todo : Differs(t)}
    /\ pc = "teardown" =>
         /\ verdict # "none"
         /\ verdict = "ok" => cmd = "check" /\ \A t \in listed : ~Differs(t)
         /\ verdict = "drift" => \E t \in listed : Differs(t)
         /\ verdict = "scaffold" => cmd = "diff"
         /\ verdict = "error" => broken \/ \E s \in Sides : stage[s] = "failed"

(* The statements make of the tables what their DDL files say, as far as a  *)
(* snapshot tells, if the files can be applied.                             *)
Settles(stmts, files, ts) ==
  LET result == Run(Nothing, Role, stmts)
  IN /\ Acyclic(files, ts)
     /\ Applicable(files, ts) =>
          /\ result.ok
          /\ \A t \in ts : SnapshotTable(result.db[t]) = SnapshotTable(files[t])

(* A migration that does what the last scaffold says would settle its       *)
(* tables; and those that are settled are so.                               *)
ScaffoldInv ==
  /\ scaffold.stmts # <<>> => Settles(FlattenSeq(chain) \o scaffold.stmts, scaffold.ddl, scaffold.listed)
  /\ settled # {} => Settles(FlattenSeq(chain), ddl, settled)

DriftInv == TypeInv /\ CommandInv /\ ScaffoldInv

(****************************************************************************)
(* Scripts.                                                                 *)
(****************************************************************************)
\* r[k] is the outcome of the first k statements.
Trace(r, d, roles, stmts, n) ==
  r = [k \in 0..n |-> IF k = 0 THEN [ok |-> TRUE, db |-> d]
                      ELSE Executed(r[k - 1], roles, stmts[k])]

LEMMA TraceExists ==
  ASSUME NEW d, NEW roles, NEW stmts, NEW n \in Nat
  PROVE  \E r : Trace(r, d, roles, stmts, n)
<1> DEFINE T == {m \in Nat : ~\E r : Trace(r, d, roles, stmts, m)}
<1> SUFFICES ASSUME T # {} PROVE FALSE
  OBVIOUS
<1>1. PICK m \in T : \A y \in T : m <= y
  <2>1. T \subseteq Nat
    OBVIOUS
  <2>. HIDE DEF T
  <2>. QED BY <2>1, NatLeast
<1>2. CASE m = 0
  <2>1. Trace([k \in 0..0 |-> [ok |-> TRUE, db |-> d]], d, roles, stmts, 0)
    BY DEF Trace
  <2>. QED BY <1>1, <1>2, <2>1
<1>3. CASE m # 0
  <2>1. m - 1 \in Nat /\ m - 1 \notin T
    BY <1>1, <1>3
  <2>2. PICK r : Trace(r, d, roles, stmts, m - 1)
    BY <2>1
  <2> DEFINE q == [k \in 0..m |-> IF k = m THEN Executed(r[m - 1], roles, stmts[m]) ELSE r[k]]
  <2>3. \A k \in 0..(m - 1) : r[k] = IF k = 0 THEN [ok |-> TRUE, db |-> d]
                                     ELSE Executed(r[k - 1], roles, stmts[k])
    BY <2>2 DEF Trace
  <2>4. \A k \in 0..m : q[k] = IF k = 0 THEN [ok |-> TRUE, db |-> d]
                               ELSE Executed(q[k - 1], roles, stmts[k])
    <3>1. TAKE k \in 0..m
    <3>2. CASE k = m
      BY <1>3, <2>1, <3>2
    <3>3. CASE k # m
      <4>1. k \in 0..(m - 1) /\ q[k] = r[k] /\ (k # 0 => k - 1 \in 0..m /\ k - 1 # m /\ q[k - 1] = r[k - 1])
        BY <2>1, <3>3
      <4>. HIDE DEF q
      <4>. QED BY <2>3, <4>1
    <3>. QED BY <3>2, <3>3
  <2>5. Trace(q, d, roles, stmts, m)
    BY <2>4 DEF Trace
  <2>. QED BY <1>1, <2>5
<1>. QED BY <1>2, <1>3

\* Run is the last outcome of a trace.
LEMMA RunTrace ==
  ASSUME NEW d, NEW roles, NEW stmts, Len(stmts) \in Nat
  PROVE  \E r : /\ r[0] = [ok |-> TRUE, db |-> d]
                /\ \A k \in 1..Len(stmts) : r[k] = Executed(r[k - 1], roles, stmts[k])
                /\ Run(d, roles, stmts) = r[Len(stmts)]
<1> DEFINE n == Len(stmts)
           r == CHOOSE r : r = [k \in 0..n |-> IF k = 0 THEN [ok |-> TRUE, db |-> d]
                                               ELSE Executed(r[k - 1], roles, stmts[k])]
<1>1. Run(d, roles, stmts) = r[n]
  <2>1. Run(d, roles, stmts) =
          LET h == CHOOSE h : h = [k \in 0..Len(stmts) |-> IF k = 0 THEN [ok |-> TRUE, db |-> d]
                                                           ELSE Executed(h[k - 1], roles, stmts[k])]
          IN h[Len(stmts)]
    BY DEF Run
  <2>. QED BY <2>1
<1>2. n \in Nat
  OBVIOUS
<1>. HIDE DEF n
<1>3. Trace(r, d, roles, stmts, n)
  <2>1. r = CHOOSE q : Trace(q, d, roles, stmts, n)
    BY DEF Trace
  <2>. HIDE DEF r
  <2>. QED BY <1>2, <2>1, TraceExists
<1>. HIDE DEF r
<1>4. /\ r[0] = [ok |-> TRUE, db |-> d]
      /\ \A k \in 1..n : r[k] = Executed(r[k - 1], roles, stmts[k])
  <2>1. \A k \in 0..n : r[k] = IF k = 0 THEN [ok |-> TRUE, db |-> d]
                               ELSE Executed(r[k - 1], roles, stmts[k])
    BY <1>3 DEF Trace
  <2>2. 0 \in 0..n /\ \A k \in 1..n : k \in 0..n /\ k # 0
    BY <1>2
  <2>. QED BY <2>1, <2>2
<1>. QED BY <1>1, <1>4 DEF n

Present(d) == {t \in DOMAIN d : d[t] # Absent}

\* A database, after a success or a failure.
IsOutcome(q) == q = [ok |-> q.ok, db |-> q.db] /\ q.ok \in BOOLEAN /\ IsDatabase(q.db)

\* q is the outcome of a statement after the outcome r.
Follows(q, r, roles, stmt) ==
  /\ q.ok => r.ok /\ Accepts(r.db, roles, stmt) /\ q.db = [r.db EXCEPT ![stmt.table] = stmt.shape]
  /\ ~q.ok => q.db = r.db
  /\ r.ok /\ Accepts(r.db, roles, stmt) => q.ok

\* What every outcome of a script is like, and that nothing is undone.
LEMMA ExecutedOutcome ==
  ASSUME NEW r, IsOutcome(r), NEW roles, NEW stmt, IsStatement(stmt)
  PROVE  /\ IsOutcome(Executed(r, roles, stmt))
         /\ Follows(Executed(r, roles, stmt), r, roles, stmt)
<1> DEFINE e == [r.db EXCEPT ![stmt.table] = stmt.shape]
<1>1. stmt.table \in Tables /\ stmt.shape \in Kin(stmt.table)
  BY DEF IsStatement
<1>2. IsDatabase(e)
  <2>1. DOMAIN r.db = Tables /\ \A t \in Tables : r.db[t] \in Kin(t) \cup {Absent}
    BY DEF IsOutcome, IsDatabase
  <2>2. e = [t \in Tables |-> IF t = stmt.table THEN stmt.shape ELSE r.db[t]]
    BY <2>1
  <2>3. \A t \in Tables : e[t] = IF t = stmt.table THEN stmt.shape ELSE r.db[t]
    BY <2>2
  <2>. HIDE DEF e
  <2>. QED BY <1>1, <2>1, <2>2, <2>3 DEF IsDatabase
<1>3. CASE r.ok /\ Accepts(r.db, roles, stmt)
  <2>1. Executed(r, roles, stmt) = [ok |-> TRUE, db |-> e]
    BY <1>3 DEF Executed
  <2>. HIDE DEF e
  <2>2. /\ Executed(r, roles, stmt) = [ok |-> Executed(r, roles, stmt).ok, db |-> Executed(r, roles, stmt).db]
        /\ Executed(r, roles, stmt).ok = TRUE /\ Executed(r, roles, stmt).db = e
    BY <2>1
  <2>. QED BY <1>2, <1>3, <2>2 DEF e, IsOutcome, Follows
<1>4. CASE ~(r.ok /\ Accepts(r.db, roles, stmt))
  <2>1. Executed(r, roles, stmt) = [ok |-> FALSE, db |-> r.db]
    BY <1>4 DEF Executed
  <2>2. /\ Executed(r, roles, stmt) = [ok |-> Executed(r, roles, stmt).ok, db |-> Executed(r, roles, stmt).db]
        /\ Executed(r, roles, stmt).ok = FALSE /\ Executed(r, roles, stmt).db = r.db
    BY <2>1
  <2>. QED BY <1>4, <2>2 DEF IsOutcome, Follows
<1>. QED BY <1>3, <1>4

\* The first outcomes of a script: all that follows is said of them.
Outcomes(r, d, roles, stmts) ==
  /\ r[0] = [ok |-> TRUE, db |-> d]
  /\ \A k \in 1..Len(stmts) : r[k] = Executed(r[k - 1], roles, stmts[k])

\* Every outcome is of a database, and a success comes of successes.
LEMMA OutcomesAreDatabases ==
  ASSUME NEW d, IsDatabase(d), NEW roles, NEW stmts, IsScript(stmts),
         NEW r, Outcomes(r, d, roles, stmts)
  PROVE  \A k \in 0..Len(stmts) :
           /\ IsOutcome(r[k])
           /\ r[k].ok => \A l \in 0..k : r[l].ok
<1> DEFINE n == Len(stmts)
           Holds(k) == /\ IsOutcome(r[k])
                       /\ r[k].ok => \A l \in 0..k : r[l].ok
           T == {k \in 0..n : ~Holds(k)}
<1>1. n \in Nat /\ DOMAIN stmts = 1..n
  BY SeqIsSeq DEF IsScript, IsSeq
<1>. HIDE DEF n
<1>2. T = {}
  <2>. SUFFICES ASSUME T # {} PROVE FALSE
    OBVIOUS
  <2>1. PICK k \in T : \A y \in T : k <= y
    <3>1. T \subseteq Nat
      BY <1>1
    <3>. HIDE DEF T
    <3>. QED BY <3>1, NatLeast
  <2>2. CASE k = 0
    <3>1. r[0] = [ok |-> r[0].ok, db |-> r[0].db] /\ r[0].ok = TRUE /\ r[0].db = d
      BY DEF Outcomes
    <3>2. \A l \in 0..0 : r[l].ok
      BY <3>1
    <3>. QED BY <2>1, <2>2, <3>1, <3>2 DEF IsOutcome
  <2>3. CASE k # 0
    <3>1. k \in 0..n /\ k \in 1..n /\ k - 1 \in 0..n /\ k - 1 \notin T
      BY <1>1, <2>1, <2>3
    <3>2. Holds(k - 1) /\ IsStatement(stmts[k]) /\ r[k] = Executed(r[k - 1], roles, stmts[k])
      BY <1>1, <3>1 DEF Outcomes, IsScript, n
    <3> DEFINE p == r[k - 1]
               s == stmts[k]
    <3>3. IsOutcome(p) /\ IsStatement(s) /\ r[k] = Executed(p, roles, s)
      BY <3>2
    <3>. HIDE DEF p, s
    <3>4. IsOutcome(r[k]) /\ (r[k].ok => p.ok)
      <4>1. IsOutcome(Executed(p, roles, s)) /\ Follows(Executed(p, roles, s), p, roles, s)
        BY <3>3, ExecutedOutcome
      <4>2. IsOutcome(r[k]) /\ Follows(r[k], p, roles, s)
        BY <3>3, <4>1
      <4>. QED BY <4>2 DEF Follows
    <3>5. \A l \in 0..k : l = k \/ l \in 0..(k - 1)
      BY <3>1
    <3>6. r[k].ok => \A l \in 0..k : r[l].ok
      BY <3>2, <3>4, <3>5 DEF p
    <3>. QED BY <2>1, <3>4, <3>6
  <2>. QED BY <2>2, <2>3
<1>. QED BY <1>2 DEF n

\* What a script leaves is a database.
LEMMA RunIsADatabase ==
  ASSUME NEW d, IsDatabase(d), NEW roles, NEW stmts, IsScript(stmts)
  PROVE  IsOutcome(Run(d, roles, stmts))
<1>1. Len(stmts) \in Nat
  BY SeqIsSeq DEF IsScript, IsSeq
<1>2. PICK r : Outcomes(r, d, roles, stmts) /\ Run(d, roles, stmts) = r[Len(stmts)]
  BY <1>1, RunTrace DEF Outcomes
<1>. QED BY <1>1, <1>2, OutcomesAreDatabases

\* No table is left twice by the statements.
Distinct(stmts) ==
  \A i, j \in 1..Len(stmts) : stmts[i].table = stmts[j].table => i = j

\* Step k of a script that has gone well so far: what is there, and what was.
Left(r, d, stmts, k) ==
  /\ \A i \in 1..k : r[k].db[stmts[i].table] = stmts[i].shape
  /\ \A t \in Tables : (\A i \in 1..k : stmts[i].table # t) => r[k].db[t] = d[t]

\* A statement of the script and what it does.
LEMMA OutcomeFollows ==
  ASSUME NEW d, IsDatabase(d), NEW roles, NEW stmts, IsScript(stmts),
         NEW r, Outcomes(r, d, roles, stmts), NEW k \in 1..Len(stmts)
  PROVE  /\ Len(stmts) \in Nat /\ k - 1 \in 0..Len(stmts) /\ k \in 0..Len(stmts)
         /\ IsOutcome(r[k - 1]) /\ IsOutcome(r[k]) /\ IsStatement(stmts[k])
         /\ Follows(r[k], r[k - 1], roles, stmts[k])
<1>1. Len(stmts) \in Nat /\ DOMAIN stmts = 1..Len(stmts)
  BY SeqIsSeq DEF IsScript, IsSeq
<1>2. k - 1 \in 0..Len(stmts) /\ k \in 0..Len(stmts)
  BY <1>1
<1>3. IsOutcome(r[k - 1]) /\ IsOutcome(r[k])
  BY <1>2, OutcomesAreDatabases
<1>4. IsStatement(stmts[k]) /\ r[k] = Executed(r[k - 1], roles, stmts[k])
  BY <1>1 DEF IsScript, Outcomes
<1> DEFINE p == r[k - 1]
           s == stmts[k]
<1>5. Follows(Executed(p, roles, s), p, roles, s)
  <2>1. IsOutcome(p) /\ IsStatement(s)
    BY <1>3, <1>4
  <2>. HIDE DEF p, s
  <2>. QED BY <2>1, ExecutedOutcome
<1>. QED BY <1>1, <1>2, <1>3, <1>4, <1>5

\* A script that goes well leaves each of its tables in the shape it says and
\* the others alone.
LEMMA OutcomesLeave ==
  ASSUME NEW d, IsDatabase(d), NEW roles, NEW stmts, IsScript(stmts), Distinct(stmts),
         NEW r, Outcomes(r, d, roles, stmts)
  PROVE  \A k \in 0..Len(stmts) : r[k].ok => Left(r, d, stmts, k)
<1> DEFINE n == Len(stmts)
           T == {k \in 0..n : ~(r[k].ok => Left(r, d, stmts, k))}
<1>1. n \in Nat
  BY SeqIsSeq DEF IsScript, IsSeq
<1>2. T = {}
  <2>. SUFFICES ASSUME T # {} PROVE FALSE
    OBVIOUS
  <2>1. PICK k \in T : \A y \in T : k <= y
    <3>1. T \subseteq Nat
      BY <1>1
    <3>. HIDE DEF T
    <3>. QED BY <3>1, NatLeast
  <2>2. CASE k = 0
    <3>1. r[0].db = d /\ 1..0 = {}
      BY DEF Outcomes
    <3>. QED BY <2>1, <2>2, <3>1 DEF Left
  <2>3. CASE k # 0
    <3>1. k \in 1..n /\ k - 1 \in 0..n /\ k - 1 \notin T
      BY <1>1, <2>1, <2>3
    <3> DEFINE p == r[k - 1]
               s == stmts[k]
    <3>2. IsOutcome(p) /\ IsStatement(s) /\ Follows(r[k], p, roles, s)
      BY <3>1, OutcomeFollows
    <3>3. r[k].ok
      BY <2>1
    <3>4. p.ok /\ r[k].db = [p.db EXCEPT ![s.table] = s.shape]
      <4>. HIDE DEF p, s
      <4>. QED BY <3>2, <3>3 DEF Follows
    <3>5. Left(r, d, stmts, k - 1)
      BY <3>1, <3>4
    <3>6. s.table \in Tables /\ DOMAIN p.db = Tables
      <4>. HIDE DEF p, s
      <4>. QED BY <3>2 DEF IsOutcome, IsDatabase, IsStatement
    <3>7. r[k].db[s.table] = s.shape /\ \A t \in Tables \ {s.table} : r[k].db[t] = p.db[t]
      <4>. HIDE DEF p, s
      <4>. QED BY <3>4, <3>6
    <3>8. \A i \in 1..k : r[k].db[stmts[i].table] = stmts[i].shape
      <4>1. TAKE i \in 1..k
      <4>2. CASE i = k
        BY <3>7, <4>2
      <4>3. CASE i # k
        <5>1. i \in 1..(k - 1) /\ i \in 1..n
          BY <1>1, <3>1, <4>3
        <5>2. stmts[i].table \in Tables /\ stmts[i].table # s.table
          BY <5>1, <3>1, <4>3, OutcomeFollows DEF IsStatement, Distinct
        <5>. QED BY <3>5, <3>7, <5>1, <5>2 DEF Left
      <4>. QED BY <4>2, <4>3
    <3>9. \A t \in Tables : (\A i \in 1..k : stmts[i].table # t) => r[k].db[t] = d[t]
      <4>1. k \in 1..k /\ \A i \in 1..(k - 1) : i \in 1..k
        BY <3>1
      <4>. QED BY <3>5, <3>7, <4>1 DEF Left
    <3>. QED BY <2>1, <3>8, <3>9 DEF Left
  <2>. QED BY <2>2, <2>3
<1>. QED BY <1>2

\* What each statement refers to is there before the script or left by it
\* until then, and it names no other role.
Fitting(stmts, d, roles) ==
  \A i \in 1..Len(stmts) :
    /\ Targets(stmts[i].shape) \subseteq Present(d) \cup {stmts[j].table : j \in 1..i}
    /\ {p.role : p \in stmts[i].shape.policies} \subseteq roles

\* Such a script goes well.
LEMMA FittingScriptGoesWell ==
  ASSUME NEW d, IsDatabase(d), NEW roles, NEW stmts, IsScript(stmts), Distinct(stmts),
         Fitting(stmts, d, roles), NEW r, Outcomes(r, d, roles, stmts)
  PROVE  \A k \in 0..Len(stmts) : r[k].ok
<1> DEFINE n == Len(stmts)
           T == {k \in 0..n : ~r[k].ok}
<1>1. n \in Nat
  BY SeqIsSeq DEF IsScript, IsSeq
<1>2. T = {}
  <2>. SUFFICES ASSUME T # {} PROVE FALSE
    OBVIOUS
  <2>1. PICK k \in T : \A y \in T : k <= y
    <3>1. T \subseteq Nat
      BY <1>1
    <3>. HIDE DEF T
    <3>. QED BY <3>1, NatLeast
  <2>2. k # 0
    <3>1. r[0].ok
      BY DEF Outcomes
    <3>. QED BY <2>1, <3>1
  <2>3. k \in 1..n /\ k - 1 \in 0..n /\ k - 1 \notin T
    BY <1>1, <2>1, <2>2
  <2> DEFINE p == r[k - 1]
             s == stmts[k]
  <2>4. IsOutcome(p) /\ IsStatement(s) /\ Follows(r[k], p, roles, s)
    BY <2>3, OutcomeFollows
  <2>5. p.ok /\ Left(r, d, stmts, k - 1)
    BY <2>3, OutcomesLeave
  <2>6. \A x \in Present(d) : x \in Tables /\ d[x] # Absent
    BY DEF Present, IsDatabase
  <2>7. \A i \in 1..n : stmts[i].table \in Tables /\ stmts[i].shape # Absent
    <3>1. \A i \in 1..n : IsStatement(stmts[i])
      BY OutcomeFollows
    <3>2. \A t : Absent \notin Kin(t)
      BY AbsentAssumption DEF Kin
    <3>. QED BY <3>1, <3>2 DEF IsStatement
  <2>8. \A i \in 1..(k - 1) : p.db[stmts[i].table] # Absent
    <3>1. TAKE i \in 1..(k - 1)
    <3>2. i \in 1..n
      BY <1>1, <2>3
    <3>. QED BY <2>5, <2>7, <3>2 DEF Left
  <2>9. \A x \in Present(d) : p.db[x] # Absent
    <3>1. TAKE x \in Present(d)
    <3>2. CASE \E i \in 1..(k - 1) : stmts[i].table = x
      BY <2>8, <3>2
    <3>3. CASE ~\E i \in 1..(k - 1) : stmts[i].table = x
      BY <2>5, <2>6, <3>3 DEF Left
    <3>. QED BY <3>2, <3>3
  <2>10. \A x \in Targets(s.shape) : x = s.table \/ (x \in Tables /\ p.db[x] # Absent)
    <3>1. TAKE x \in Targets(s.shape)
    <3>2. CASE x \in Present(d)
      BY <2>6, <2>9, <3>2
    <3>3. CASE x \notin Present(d)
      <4>1. PICK j \in 1..k : x = stmts[j].table
        BY <2>3, <3>3 DEF Fitting
      <4>2. j \in 1..n /\ (j = k \/ j \in 1..(k - 1))
        BY <1>1, <2>3
      <4>. QED BY <2>7, <2>8, <4>1, <4>2
    <3>. QED BY <3>2, <3>3
  <2>11. {q.role : q \in s.shape.policies} \subseteq roles
    BY <2>3 DEF Fitting
  <2>12. Accepts(p.db, roles, s)
    <3>1. DOMAIN p.db = Tables
      BY <2>4 DEF IsOutcome, IsDatabase
    <3>. HIDE DEF p, s
    <3>. QED BY <2>10, <2>11, <3>1 DEF Accepts
  <2>13. r[k].ok
    <3>. HIDE DEF p, s
    <3>. QED BY <2>4, <2>5, <2>12 DEF Follows
  <2>. QED BY <2>1, <2>13
<1>. QED BY <1>2

\* c is s and then t.
Joined(c, s, t) ==
  /\ IsScript(c) /\ Len(s) \in Nat /\ Len(t) \in Nat /\ Len(c) = Len(s) + Len(t)
  /\ \A i \in 1..Len(s) : c[i] = s[i]
  /\ \A i \in 1..Len(t) : c[Len(s) + i] = t[i]

\* Two scripts one after the other are one script.
LEMMA ConcatIsScript ==
  ASSUME NEW s, IsScript(s), NEW t, IsScript(t)
  PROVE  Joined(s \o t, s, t)
<1> DEFINE S == Range(s) \cup Range(t)
<1>1. s \in Seq(S) /\ t \in Seq(S)
  BY SeqMonotonic DEF IsScript, IsSeq
<1>2. Len(s) \in Nat /\ Len(t) \in Nat /\ DOMAIN s = 1..Len(s) /\ DOMAIN t = 1..Len(t)
  BY SeqIsSeq DEF IsScript, IsSeq
<1>. HIDE DEF S
<1>3. /\ s \o t \in Seq(S) /\ Len(s \o t) = Len(s) + Len(t)
      /\ \A i \in 1..Len(s) + Len(t) : (s \o t)[i] = IF i <= Len(s) THEN s[i] ELSE t[i - Len(s)]
  BY <1>1, ConcatProperties
<1>4. IsSeq(s \o t) /\ DOMAIN (s \o t) = 1..(Len(s) + Len(t))
  BY <1>3, SeqIsSeq
<1> DEFINE a == Len(s)
           b == Len(t)
           c == s \o t
<1>5. a \in Nat /\ b \in Nat /\ \A i \in 1..a + b : c[i] = IF i <= a THEN s[i] ELSE t[i - a]
  BY <1>2, <1>3
<1>6. (\A i \in 1..a : IsStatement(s[i])) /\ (\A i \in 1..b : IsStatement(t[i]))
  BY <1>2 DEF IsScript
<1>. HIDE DEF a, b, c
<1>7. (\A i \in 1..a : c[i] = s[i]) /\ (\A i \in 1..b : c[a + i] = t[i])
  <2>1. \A i \in 1..a : i \in 1..a + b /\ i <= a
    BY <1>5
  <2>2. \A i \in 1..b : a + i \in 1..a + b /\ ~(a + i <= a) /\ (a + i) - a = i
    BY <1>5
  <2>. QED BY <1>5, <2>1, <2>2
<1>8. \A i \in 1..a + b : IsStatement(c[i])
  <2>1. \A i \in 1..a + b : (i <= a => i \in 1..a) /\ (~(i <= a) => i - a \in 1..b)
    BY <1>5
  <2>. QED BY <1>5, <1>6, <2>1
<1>9. Len(c) = a + b /\ IsSeq(c) /\ DOMAIN c = 1..a + b
  BY <1>3, <1>4 DEF a, b, c
<1>10. Joined(c, s, t)
  BY <1>5, <1>7, <1>8, <1>9 DEF IsScript, Joined, a, b
<1>. QED BY <1>10 DEF c

\* The second script starts where the first, if it went well, has left off.
LEMMA RunConcat ==
  ASSUME NEW d, IsDatabase(d), NEW roles, NEW s, IsScript(s), NEW t, IsScript(t),
         Run(d, roles, s).ok
  PROVE  Run(d, roles, s \o t) = Run(Run(d, roles, s).db, roles, t)
<1> DEFINE a == Len(s)
           b == Len(t)
           c == s \o t
           e == Run(d, roles, s).db
<1>0. Joined(c, s, t)
  BY ConcatIsScript
<1>. HIDE DEF c
<1>1. /\ IsScript(c) /\ a \in Nat /\ b \in Nat /\ Len(c) = a + b
      /\ \A i \in 1..a : c[i] = s[i]
      /\ \A i \in 1..b : c[a + i] = t[i]
  BY <1>0 DEF Joined
<1>2. IsDatabase(e)
  BY RunIsADatabase DEF IsOutcome
<1>3. PICK p : Outcomes(p, d, roles, s) /\ Run(d, roles, s) = p[a]
  BY <1>1, RunTrace DEF Outcomes
<1>4. PICK r : Outcomes(r, d, roles, c) /\ Run(d, roles, c) = r[a + b]
  <2>1. Len(c) \in Nat
    BY <1>1
  <2>2. \E r : Outcomes(r, d, roles, c) /\ Run(d, roles, c) = r[Len(c)]
    BY <2>1, RunTrace DEF Outcomes
  <2>. QED BY <1>1, <2>2
<1>5. PICK q : Outcomes(q, e, roles, t) /\ Run(e, roles, t) = q[b]
  <2>. HIDE DEF e
  <2>. QED BY <1>1, RunTrace DEF Outcomes
<1>6. p[a] = [ok |-> TRUE, db |-> e]
  <2>1. IsOutcome(p[a]) /\ p[a].ok /\ p[a].db = e
    BY <1>3, RunIsADatabase
  <2>. QED BY <2>1 DEF IsOutcome
<1>. HIDE DEF a, b, e
<1>7. /\ p[0] = [ok |-> TRUE, db |-> d] /\ \A k \in 1..a : p[k] = Executed(p[k - 1], roles, s[k])
      /\ r[0] = [ok |-> TRUE, db |-> d] /\ \A k \in 1..a + b : r[k] = Executed(r[k - 1], roles, c[k])
      /\ q[0] = [ok |-> TRUE, db |-> e] /\ \A k \in 1..b : q[k] = Executed(q[k - 1], roles, t[k])
  BY <1>1, <1>3, <1>4, <1>5 DEF Outcomes, a, b
<1>8. \A k \in 0..a : r[k] = p[k]
  <2> DEFINE T == {k \in 0..a : r[k] # p[k]}
  <2>. SUFFICES ASSUME T # {} PROVE FALSE
    OBVIOUS
  <2>1. PICK k \in T : \A y \in T : k <= y
    <3>1. T \subseteq Nat
      BY <1>1
    <3>. HIDE DEF T
    <3>. QED BY <3>1, NatLeast
  <2>2. k # 0
    BY <1>7, <2>1
  <2>3. k \in 1..a /\ k \in 1..a + b /\ k - 1 \in 0..a /\ k - 1 \notin T
    BY <1>1, <2>1, <2>2
  <2>. QED BY <1>1, <1>7, <2>1, <2>3
<1>9. \A k \in 0..b : r[a + k] = q[k]
  <2> DEFINE T == {k \in 0..b : r[a + k] # q[k]}
  <2>. SUFFICES ASSUME T # {} PROVE FALSE
    OBVIOUS
  <2>1. PICK k \in T : \A y \in T : k <= y
    <3>1. T \subseteq Nat
      BY <1>1
    <3>. HIDE DEF T
    <3>. QED BY <3>1, NatLeast
  <2>2. k # 0
    <3>1. a + 0 = a /\ a \in 0..a
      BY <1>1
    <3>. QED BY <1>6, <1>7, <1>8, <2>1, <3>1
  <2>3. /\ k \in 1..b /\ a + k \in 1..a + b /\ (a + k) - 1 = a + (k - 1)
        /\ k - 1 \in 0..b /\ k - 1 \notin T
    BY <1>1, <2>1, <2>2
  <2>4. r[a + k] = Executed(r[(a + k) - 1], roles, c[a + k])
    BY <1>7, <2>3
  <2>5. r[(a + k) - 1] = q[k - 1] /\ c[a + k] = t[k]
    BY <1>1, <2>3
  <2>. QED BY <1>7, <2>1, <2>3, <2>4, <2>5
<1>10. r[a + b] = q[b]
  BY <1>1, <1>9
<1>. QED BY <1>4, <1>5, <1>10 DEF c, e

\* What a script that goes well leaves, if it leaves no table twice.
LEMMA RunLeaves ==
  ASSUME NEW d, IsDatabase(d), NEW roles, NEW stmts, IsScript(stmts), Distinct(stmts),
         Run(d, roles, stmts).ok
  PROVE  LET e == Run(d, roles, stmts).db
         IN /\ \A i \in 1..Len(stmts) : e[stmts[i].table] = stmts[i].shape
            /\ \A t \in Tables : (\A i \in 1..Len(stmts) : stmts[i].table # t) => e[t] = d[t]
<1>1. Len(stmts) \in Nat
  BY SeqIsSeq DEF IsScript, IsSeq
<1>2. PICK r : Outcomes(r, d, roles, stmts) /\ Run(d, roles, stmts) = r[Len(stmts)]
  BY <1>1, RunTrace DEF Outcomes
<1>3. Left(r, d, stmts, Len(stmts))
  BY <1>1, <1>2, OutcomesLeave
<1>. QED BY <1>2, <1>3 DEF Left

\* A script that fits goes well.
LEMMA RunGoesWell ==
  ASSUME NEW d, IsDatabase(d), NEW roles, NEW stmts, IsScript(stmts), Distinct(stmts),
         Fitting(stmts, d, roles)
  PROVE  Run(d, roles, stmts).ok
<1>1. Len(stmts) \in Nat
  BY SeqIsSeq DEF IsScript, IsSeq
<1>2. PICK r : Outcomes(r, d, roles, stmts) /\ Run(d, roles, stmts) = r[Len(stmts)]
  BY <1>1, RunTrace DEF Outcomes
<1>. QED BY <1>1, <1>2, FittingScriptGoesWell

(****************************************************************************)
(* Snapshots.                                                               *)
(****************************************************************************)

\* Whoever is read in full is determined by its snapshot (snapshotTable).
LEMMA SnapshotDetermines ==
  ASSUME ReadInFull, NEW t \in Tables, NEW x \in Kin(t), NEW y \in Kin(t),
         SnapshotTable(x) = SnapshotTable(y)
  PROVE  x = y
<1>1. x \in Table /\ y \in Table /\ x # Absent /\ y # Absent
  BY AbsentAssumption DEF Kin
<1>2. /\ FetchColumns(x) = FetchColumns(y) /\ FetchForeignKeys(x) = FetchForeignKeys(y)
      /\ x.key = y.key /\ x.checks = y.checks /\ x.indexes = y.indexes /\ x.rls = y.rls
      /\ x.policies = y.policies /\ x.comment = y.comment
  <2>1. \A z \in {x, y} :
          SnapshotTable(z) = [columns |-> FetchColumns(z), key |-> z.key, checks |-> z.checks,
                              indexes |-> z.indexes, rls |-> z.rls, policies |-> z.policies,
                              comment |-> z.comment, fks |-> FetchForeignKeys(z)]
    BY <1>1 DEF SnapshotTable
  <2>. QED BY <2>1
<1>3. \A c \in x.columns, d \in y.columns :
        c.name = d.name /\ c.type = d.type /\ NormaliseDefault(c.default) = NormaliseDefault(d.default)
          => c = d
  <2>1. TAKE c \in x.columns, d \in y.columns
  <2>2. PICK u \in Shapes[t] : c \in u.columns
    BY DEF Kin
  <2>3. PICK v \in Shapes[t] : d \in v.columns
    BY DEF Kin
  <2>. QED BY <2>2, <2>3 DEF ReadInFull
<1>4. x.columns = y.columns
  <2>1. \A c \in x.columns : \E d \in y.columns :
          c.name = d.name /\ c.type = d.type /\ NormaliseDefault(c.default) = NormaliseDefault(d.default)
    <3>1. TAKE c \in x.columns
    <3>2. [name |-> c.name, type |-> c.type, default |-> NormaliseDefault(c.default)] \in FetchColumns(y)
      BY <1>2 DEF FetchColumns
    <3>. QED BY <3>2 DEF FetchColumns
  <2>2. \A d \in y.columns : \E c \in x.columns :
          c.name = d.name /\ c.type = d.type /\ NormaliseDefault(c.default) = NormaliseDefault(d.default)
    <3>1. TAKE d \in y.columns
    <3>2. [name |-> d.name, type |-> d.type, default |-> NormaliseDefault(d.default)] \in FetchColumns(x)
      BY <1>2 DEF FetchColumns
    <3>. QED BY <3>2 DEF FetchColumns
  <2>3. \A c \in x.columns : c \in y.columns
    BY <1>3, <2>1
  <2>4. \A d \in y.columns : d \in x.columns
    BY <1>3, <2>2
  <2>. QED BY <2>3, <2>4
<1>5. \A f, g \in ForeignKey :
        f.name = g.name /\ f.columns = g.columns /\ f.target = g.target /\ f.validated = g.validated => f = g
  BY DEF ForeignKey
<1>6. x.fks \subseteq ForeignKey /\ y.fks \subseteq ForeignKey
  BY <1>1 DEF Table
<1>7. \A f \in x.fks : f \in y.fks
  <2>1. TAKE f \in x.fks
  <2>2. [name |-> f.name, body |-> <<f.columns, f.target>>, validated |-> f.validated,
         backed |-> HasBackingIndex(x, f.columns)] \in FetchForeignKeys(y)
    BY <1>2 DEF FetchForeignKeys
  <2>3. PICK g \in y.fks : f.name = g.name /\ f.columns = g.columns /\ f.target = g.target /\ f.validated = g.validated
    BY <2>2 DEF FetchForeignKeys
  <2>. QED BY <1>5, <1>6, <2>3
<1>8. \A f \in y.fks : f \in x.fks
  <2>1. TAKE f \in y.fks
  <2>2. [name |-> f.name, body |-> <<f.columns, f.target>>, validated |-> f.validated,
         backed |-> HasBackingIndex(y, f.columns)] \in FetchForeignKeys(x)
    BY <1>2 DEF FetchForeignKeys
  <2>3. PICK g \in x.fks : f.name = g.name /\ f.columns = g.columns /\ f.target = g.target /\ f.validated = g.validated
    BY <2>2 DEF FetchForeignKeys
  <2>. QED BY <1>5, <1>6, <2>3
<1>9. x.partition = y.partition
  BY DEF Kin, ReadInFull
<1>10. \A z \in Table :
         z = [columns |-> z.columns, key |-> z.key, checks |-> z.checks, indexes |-> z.indexes, rls |-> z.rls,
              policies |-> z.policies, comment |-> z.comment, fks |-> z.fks, partition |-> z.partition]
  BY DEF Table
<1>11. x.fks = y.fks
  BY <1>7, <1>8
<1>12. /\ x = [columns |-> x.columns, key |-> x.key, checks |-> x.checks, indexes |-> x.indexes, rls |-> x.rls,
               policies |-> x.policies, comment |-> x.comment, fks |-> x.fks, partition |-> x.partition]
       /\ y = [columns |-> y.columns, key |-> y.key, checks |-> y.checks, indexes |-> y.indexes, rls |-> y.rls,
               policies |-> y.policies, comment |-> y.comment, fks |-> y.fks, partition |-> y.partition]
  BY <1>1, <1>10
<1>. QED BY <1>2, <1>4, <1>9, <1>11, <1>12

\* A table with a column is seen to be there.
LEMMA SnapshotShows ==
  ASSUME NEW x \in Table, x.columns # {}
  PROVE  SnapshotTable(x) # SnapshotTable(Absent)
<1>1. SnapshotTable(x).columns = FetchColumns(x)
  BY AbsentAssumption DEF SnapshotTable
<1>2. SnapshotTable(Absent).columns = {}
  BY DEF SnapshotTable, NoTable
<1>3. FetchColumns(x) # {}
  BY DEF FetchColumns
<1>. QED BY <1>1, <1>2, <1>3

\* What the lines of a delta name: whatever differs (computeTableDelta).
NamedBy(lines, k) == {l.name : l \in {m \in lines : m.kind = k}}

LEMMA NamedLines ==
  ASSUME NEW C, NEW T
  PROVE  /\ \A k \in Kinds : \A n : n \notin NamedBy(ComputeTableDelta(C, T), k) => Named(C[k], n) = Named(T[k], n)
         /\ \A k \in Whole : NamedBy(ComputeTableDelta(C, T), k) # {} <=> C[k] # T[k]
<1> DEFINE lines == ComputeTableDelta(C, T)
<1>1. \A k \in Kinds : DiffNamed(k, C[k], T[k]) \subseteq lines
  BY DEF ComputeTableDelta
<1>2. ASSUME NEW k \in Kinds, NEW n, n \notin NamedBy(lines, k)
      PROVE  Named(C[k], n) = Named(T[k], n)
  <2>1. CASE n \in Names(C[k]) \cup Names(T[k])
    <3>. SUFFICES ASSUME Named(C[k], n) # Named(T[k], n) PROVE FALSE
      OBVIOUS
    <3>1. [kind |-> k, name |-> n] \in DiffNamed(k, C[k], T[k])
      BY <2>1 DEF DiffNamed
    <3>2. [kind |-> k, name |-> n] \in lines
      BY <1>1, <3>1
    <3>. HIDE DEF lines
    <3>. QED BY <1>2, <3>2 DEF NamedBy
  <2>2. CASE n \notin Names(C[k]) \cup Names(T[k])
    BY <2>2 DEF Named, Names
  <2>. QED BY <2>1, <2>2
<1>3. ASSUME NEW k \in Whole
      PROVE  NamedBy(lines, k) # {} <=> C[k] # T[k]
  <2>1. ASSUME C[k] # T[k] PROVE NamedBy(lines, k) # {}
    <3> DEFINE l == [kind |-> k, name |-> ""]
    <3>1. l \in lines /\ l.kind = k
      BY <2>1 DEF ComputeTableDelta
    <3>. HIDE DEF lines, l
    <3>. QED BY <3>1 DEF NamedBy
  <2>2. ASSUME NamedBy(lines, k) # {} PROVE C[k] # T[k]
    <3>1. PICK l \in lines : l.kind = k
      BY <2>2 DEF NamedBy
    <3>2. \A j \in Kinds : j # k
      BY DEF Kinds, Whole
    <3>3. \A j \in Kinds : l \notin DiffNamed(j, C[j], T[j])
      BY <3>1, <3>2 DEF DiffNamed
    <3>4. PICK w \in Whole : C[w] # T[w] /\ l = [kind |-> w, name |-> ""]
      BY <3>1, <3>3 DEF ComputeTableDelta
    <3>. QED BY <3>1, <3>4
  <2>. QED BY <2>1, <2>2
<1>. QED BY <1>2, <1>3

\* A table as the record of its parts, and the parts of a closed one.
Parts == Kinds \cup Whole \cup {"partition"}

Mended(k, current, target, lines) ==
  {x \in current[k] : x.name \notin NamedBy(lines, k)} \cup {x \in target[k] : x.name \in NamedBy(lines, k)}

LEMMA CloseParts ==
  ASSUME NEW current \in Table, NEW target, NEW lines
  PROVE  /\ Close(current, target, lines) = [k \in Parts |-> Close(current, target, lines)[k]]
         /\ \A k \in Kinds : Close(current, target, lines)[k] = Mended(k, current, target, lines)
         /\ \A k \in Parts \ Kinds :
              Close(current, target, lines)[k] = IF NamedBy(lines, k) # {} THEN target[k] ELSE current[k]
<1>1. DOMAIN current = Parts
  BY DEF Table, Parts, Kinds, Whole
<1>2. Close(current, target, lines) =
        [k \in Parts |-> IF k \in Kinds THEN Mended(k, current, target, lines)
                         ELSE IF NamedBy(lines, k) # {} THEN target[k] ELSE current[k]]
  BY <1>1 DEF Close, Mended, NamedBy
<1>3. Kinds \subseteq Parts
  BY DEF Parts
<1>. QED BY <1>2, <1>3

LEMMA TableParts ==
  ASSUME NEW s
  PROVE  s \in Table <=>
           /\ s = [k \in Parts |-> s[k]]
           /\ s["columns"] \subseteq Column /\ s["key"] \in Seq(STRING) /\ s["checks"] \subseteq Check
           /\ s["indexes"] \subseteq Index /\ s["rls"] \in BOOLEAN /\ s["policies"] \subseteq Policy
           /\ s["comment"] \in STRING /\ s["fks"] \subseteq ForeignKey /\ s["partition"] \in STRING
BY DEF Table, Parts, Kinds, Whole

\* What is closed is a table of the shapes its two sides are of.
LEMMA CloseIsATable ==
  ASSUME NEW current \in Table, NEW target \in Table, NEW lines
  PROVE  /\ Close(current, target, lines) \in Table
         /\ Close(current, target, lines).columns \subseteq current.columns \cup target.columns
         /\ Close(current, target, lines).partition \in {current.partition, target.partition}
<1> DEFINE s == Close(current, target, lines)
<1>1. /\ s = [k \in Parts |-> s[k]]
      /\ \A k \in Kinds : s[k] \subseteq current[k] \cup target[k]
      /\ \A k \in Parts \ Kinds : s[k] = current[k] \/ s[k] = target[k]
  BY CloseParts DEF Mended
<1>. HIDE DEF s
<1>2. /\ s["columns"] \subseteq current["columns"] \cup target["columns"]
      /\ s["checks"] \subseteq current["checks"] \cup target["checks"]
      /\ s["indexes"] \subseteq current["indexes"] \cup target["indexes"]
      /\ s["policies"] \subseteq current["policies"] \cup target["policies"]
      /\ s["fks"] \subseteq current["fks"] \cup target["fks"]
  BY <1>1 DEF Kinds
<1>3. /\ s["key"] = current["key"] \/ s["key"] = target["key"]
      /\ s["rls"] = current["rls"] \/ s["rls"] = target["rls"]
      /\ s["comment"] = current["comment"] \/ s["comment"] = target["comment"]
      /\ s["partition"] = current["partition"] \/ s["partition"] = target["partition"]
  BY <1>1 DEF Parts, Kinds, Whole
<1>4. \A z \in {current, target} :
         /\ z["columns"] \subseteq Column /\ z["key"] \in Seq(STRING) /\ z["checks"] \subseteq Check
         /\ z["indexes"] \subseteq Index /\ z["rls"] \in BOOLEAN /\ z["policies"] \subseteq Policy
         /\ z["comment"] \in STRING /\ z["fks"] \subseteq ForeignKey /\ z["partition"] \in STRING
  BY TableParts
<1>5. /\ s["columns"] \subseteq Column /\ s["key"] \in Seq(STRING) /\ s["checks"] \subseteq Check
      /\ s["indexes"] \subseteq Index /\ s["rls"] \in BOOLEAN /\ s["policies"] \subseteq Policy
      /\ s["comment"] \in STRING /\ s["fks"] \subseteq ForeignKey /\ s["partition"] \in STRING
  BY <1>2, <1>3, <1>4
<1>6. s \in Table
  BY <1>1, <1>5, TableParts
<1>. QED BY <1>2, <1>3, <1>6 DEF s

LEMMA CloseIsKin ==
  ASSUME NEW t \in Tables, NEW current \in Kin(t), NEW target \in Kin(t), NEW lines
  PROVE  Close(current, target, lines) \in Kin(t)
<1> DEFINE s == Close(current, target, lines)
<1>1. /\ s \in Table /\ s.columns \subseteq current.columns \cup target.columns
      /\ s.partition \in {current.partition, target.partition}
  BY CloseIsATable DEF Kin
<1>. HIDE DEF s
<1>2. s \in Kin(t)
  BY <1>1 DEF Kin
<1>. QED BY <1>2 DEF s

\* Doing what the lines say makes the snapshot the target's
\* (computeTableDelta, and the brief it is printed in).
LEMMA CloseCloses ==
  ASSUME NEW current \in Table, NEW target \in Table
  PROVE  SnapshotTable(Close(current, target, ComputeTableDelta(SnapshotTable(current), SnapshotTable(target))))
           = SnapshotTable(target)
<1> DEFINE C == SnapshotTable(current)
           T == SnapshotTable(target)
           lines == ComputeTableDelta(C, T)
           s == Close(current, target, lines)
<1>1. /\ s \in Table /\ \A k \in Kinds : s[k] = Mended(k, current, target, lines)
      /\ \A k \in Parts \ Kinds : s[k] = IF NamedBy(lines, k) # {} THEN target[k] ELSE current[k]
  BY CloseIsATable, CloseParts
<1>2. /\ \A k \in Kinds : \A n : n \notin NamedBy(lines, k) => Named(C[k], n) = Named(T[k], n)
      /\ \A k \in Whole : NamedBy(lines, k) # {} <=> C[k] # T[k]
  BY NamedLines
<1>. HIDE DEF s, lines
<1>3. \A z \in Table :
        SnapshotTable(z) = [columns |-> FetchColumns(z), key |-> z.key, checks |-> z.checks,
                            indexes |-> z.indexes, rls |-> z.rls, policies |-> z.policies,
                            comment |-> z.comment, fks |-> FetchForeignKeys(z)]
  BY AbsentAssumption DEF SnapshotTable
<1>4. /\ C = [columns |-> FetchColumns(current), key |-> current.key, checks |-> current.checks,
              indexes |-> current.indexes, rls |-> current.rls, policies |-> current.policies,
              comment |-> current.comment, fks |-> FetchForeignKeys(current)]
      /\ T = [columns |-> FetchColumns(target), key |-> target.key, checks |-> target.checks,
              indexes |-> target.indexes, rls |-> target.rls, policies |-> target.policies,
              comment |-> target.comment, fks |-> FetchForeignKeys(target)]
  BY <1>3
<1>. HIDE DEF C, T
<1>5. /\ C["columns"] = FetchColumns(current) /\ C["key"] = current["key"] /\ C["checks"] = current["checks"]
      /\ C["indexes"] = current["indexes"] /\ C["rls"] = current["rls"] /\ C["policies"] = current["policies"]
      /\ C["comment"] = current["comment"] /\ C["fks"] = FetchForeignKeys(current)
      /\ T["columns"] = FetchColumns(target) /\ T["key"] = target["key"] /\ T["checks"] = target["checks"]
      /\ T["indexes"] = target["indexes"] /\ T["rls"] = target["rls"] /\ T["policies"] = target["policies"]
      /\ T["comment"] = target["comment"] /\ T["fks"] = FetchForeignKeys(target)
  BY <1>4
\* A key, a comment and the row-level security are replaced if they differ.
<1>6. \A k \in Whole : C[k] = current[k] /\ T[k] = target[k] => s[k] = target[k]
  BY <1>1, <1>2 DEF Parts, Kinds, Whole
<1>7. s["key"] = target["key"] /\ s["rls"] = target["rls"] /\ s["comment"] = target["comment"]
  BY <1>5, <1>6 DEF Whole
\* What a snapshot takes as it is, is replaced name by name.
<1>8. \A k \in Kinds : C[k] = current[k] /\ T[k] = target[k] => s[k] = target[k]
  <2>. SUFFICES ASSUME NEW k \in Kinds, C[k] = current[k], T[k] = target[k]
                PROVE  s[k] = target[k]
    OBVIOUS
  <2>1. \A n : n \notin NamedBy(lines, k) => Named(current[k], n) = Named(target[k], n)
    BY <1>2
  <2>2. \A x \in current[k] : x.name \notin NamedBy(lines, k) => x \in target[k]
    <3>1. TAKE x \in current[k]
    <3>2. x \in Named(current[k], x.name)
      BY DEF Named
    <3>3. x \in Named(target[k], x.name) => x \in target[k]
      BY DEF Named
    <3>. QED BY <2>1, <3>2, <3>3
  <2>3. \A x \in target[k] : x.name \notin NamedBy(lines, k) => x \in current[k]
    <3>1. TAKE x \in target[k]
    <3>2. x \in Named(target[k], x.name)
      BY DEF Named
    <3>3. x \in Named(current[k], x.name) => x \in current[k]
      BY DEF Named
    <3>. QED BY <2>1, <3>2, <3>3
  <2>. QED BY <1>1, <2>2, <2>3 DEF Mended
<1>9. s["checks"] = target["checks"] /\ s["indexes"] = target["indexes"] /\ s["policies"] = target["policies"]
  BY <1>5, <1>8 DEF Kinds
\* The columns, as they are fetched.
<1>10. FetchColumns(s) = FetchColumns(target)
  <2> DEFINE Read(c) == [name |-> c.name, type |-> c.type, default |-> NormaliseDefault(c.default)]
             named == NamedBy(lines, "columns")
  <2>1. \A n : n \notin named => Named(FetchColumns(current), n) = Named(FetchColumns(target), n)
    BY <1>2, <1>5 DEF Kinds
  <2>2. /\ FetchColumns(s) = {Read(c) : c \in s.columns}
        /\ FetchColumns(current) = {Read(c) : c \in current.columns}
        /\ FetchColumns(target) = {Read(c) : c \in target.columns}
    BY DEF FetchColumns
  <2>3. s.columns = {c \in current.columns : c.name \notin named} \cup {c \in target.columns : c.name \in named}
    BY <1>1 DEF Mended, Kinds
  <2>4. \A c : Read(c).name = c.name
    OBVIOUS
  <2>. HIDE DEF Read, named
  <2>5. \A c \in s.columns : Read(c) \in FetchColumns(target)
    <3>1. TAKE c \in s.columns
    <3>2. CASE c.name \in named
      BY <2>2, <2>3, <3>2
    <3>3. CASE c.name \notin named
      <4>1. Read(c) \in Named(FetchColumns(current), c.name)
        BY <2>2, <2>3, <2>4, <3>3 DEF Named
      <4>2. Read(c) \in Named(FetchColumns(target), c.name)
        BY <2>1, <3>3, <4>1
      <4>. QED BY <4>2 DEF Named
    <3>. QED BY <3>2, <3>3
  <2>6. \A c \in target.columns : Read(c) \in FetchColumns(s)
    <3>1. TAKE c \in target.columns
    <3>2. CASE c.name \in named
      BY <2>2, <2>3, <3>2
    <3>3. CASE c.name \notin named
      <4>1. Read(c) \in Named(FetchColumns(target), c.name)
        BY <2>2, <2>4 DEF Named
      <4>2. Read(c) \in Named(FetchColumns(current), c.name)
        BY <2>1, <3>3, <4>1
      <4>3. PICK d \in current.columns : Read(d) = Read(c)
        BY <2>2, <4>2 DEF Named
      <4>4. d \in s.columns
        BY <2>3, <2>4, <3>3, <4>3
      <4>. QED BY <2>2, <4>3, <4>4
    <3>. QED BY <3>2, <3>3
  <2>. QED BY <2>2, <2>5, <2>6
\* The foreign keys, with whether an index backs them.
<1>11. \A columns : HasBackingIndex(s, columns) <=> HasBackingIndex(target, columns)
  <2>1. s.indexes = target.indexes /\ s.key = target.key
    BY <1>7, <1>9
  <2>. QED BY <2>1 DEF HasBackingIndex
<1>12. FetchForeignKeys(s) = FetchForeignKeys(target)
  <2> DEFINE Read(tb, f) == [name |-> f.name, body |-> <<f.columns, f.target>>, validated |-> f.validated,
                             backed |-> HasBackingIndex(tb, f.columns)]
             named == NamedBy(lines, "fks")
  <2>1. \A n : n \notin named => Named(FetchForeignKeys(current), n) = Named(FetchForeignKeys(target), n)
    BY <1>2, <1>5 DEF Kinds
  <2>2. /\ FetchForeignKeys(s) = {Read(s, f) : f \in s.fks}
        /\ FetchForeignKeys(current) = {Read(current, f) : f \in current.fks}
        /\ FetchForeignKeys(target) = {Read(target, f) : f \in target.fks}
    BY DEF FetchForeignKeys
  <2>3. s.fks = {f \in current.fks : f.name \notin named} \cup {f \in target.fks : f.name \in named}
    BY <1>1 DEF Mended, Kinds
  <2>4. \A tb, f : Read(tb, f).name = f.name
    OBVIOUS
  <2>5. \A f : Read(s, f) = Read(target, f)
    <3>1. TAKE f
    <3>2. HasBackingIndex(s, f.columns) = HasBackingIndex(target, f.columns)
      BY <1>11 DEF HasBackingIndex
    <3>. QED BY <3>2
  <2>6. \A f, g : Read(current, f) = Read(target, g) => Read(target, f) = Read(target, g)
    <3>1. TAKE f, g
    <3>2. HAVE Read(current, f) = Read(target, g)
    <3>3. f.name = g.name /\ <<f.columns, f.target>> = <<g.columns, g.target>> /\ f.validated = g.validated
      BY <3>2
    <3>4. f.columns = g.columns /\ f.target = g.target
      BY <3>3
    <3>. QED BY <3>3, <3>4
  <2>. HIDE DEF Read, named
  <2>7. \A f \in s.fks : Read(s, f) \in FetchForeignKeys(target)
    <3>1. TAKE f \in s.fks
    <3>2. CASE f.name \in named
      BY <2>2, <2>3, <2>5, <3>2
    <3>3. CASE f.name \notin named
      <4>1. Read(current, f) \in Named(FetchForeignKeys(current), f.name)
        BY <2>2, <2>3, <2>4, <3>3 DEF Named
      <4>2. Read(current, f) \in Named(FetchForeignKeys(target), f.name)
        BY <2>1, <3>3, <4>1
      <4>3. PICK g \in target.fks : Read(current, f) = Read(target, g)
        BY <2>2, <4>2 DEF Named
      <4>. QED BY <2>2, <2>5, <2>6, <4>3
    <3>. QED BY <3>2, <3>3
  <2>8. \A f \in target.fks : Read(target, f) \in FetchForeignKeys(s)
    <3>1. TAKE f \in target.fks
    <3>2. CASE f.name \in named
      BY <2>2, <2>3, <2>5, <3>2
    <3>3. CASE f.name \notin named
      <4>1. Read(target, f) \in Named(FetchForeignKeys(target), f.name)
        BY <2>2, <2>4 DEF Named
      <4>2. Read(target, f) \in Named(FetchForeignKeys(current), f.name)
        BY <2>1, <3>3, <4>1
      <4>3. PICK g \in current.fks : Read(current, g) = Read(target, f)
        BY <2>2, <4>2 DEF Named
      <4>4. g \in s.fks
        BY <2>3, <2>4, <3>3, <4>3
      <4>5. Read(s, g) = Read(target, f)
        BY <2>5, <2>6, <4>3
      <4>. QED BY <2>2, <4>4, <4>5
    <3>. QED BY <3>2, <3>3
  <2>. QED BY <2>2, <2>7, <2>8
<1>13. SnapshotTable(s) = SnapshotTable(target)
  <2>1. /\ SnapshotTable(s) = [columns |-> FetchColumns(s), key |-> s.key, checks |-> s.checks,
                               indexes |-> s.indexes, rls |-> s.rls, policies |-> s.policies,
                               comment |-> s.comment, fks |-> FetchForeignKeys(s)]
        /\ SnapshotTable(target) = [columns |-> FetchColumns(target), key |-> target.key, checks |-> target.checks,
                               indexes |-> target.indexes, rls |-> target.rls, policies |-> target.policies,
                               comment |-> target.comment, fks |-> FetchForeignKeys(target)]
    BY <1>1, <1>3
  <2>2. /\ s.key = target.key /\ s.rls = target.rls /\ s.comment = target.comment
        /\ s.checks = target.checks /\ s.indexes = target.indexes /\ s.policies = target.policies
    BY <1>7, <1>9
  <2>. QED BY <1>10, <1>12, <2>1, <2>2
<1>. QED BY <1>13 DEF s, lines, C, T

\* The developer's unvalidated statement is a statement too.
LEMMA NotValidIsAStatement ==
  ASSUME NEW stmt, IsStatement(stmt)
  PROVE  IsStatement(NotValid(stmt))
<1> DEFINE fks == {[f EXCEPT !.validated = FALSE] : f \in stmt.shape.fks}
           shape == [stmt.shape EXCEPT !.fks = fks]
<1>1. stmt.shape \in Table /\ stmt.shape.fks \subseteq ForeignKey
  BY DEF IsStatement, Kin, Table
<1>2. fks \subseteq ForeignKey
  BY <1>1 DEF ForeignKey
<1>. HIDE DEF fks
<1>3. shape \in Table /\ shape.columns = stmt.shape.columns /\ shape.partition = stmt.shape.partition
  BY <1>1, <1>2 DEF Table
<1>4. NotValid(stmt) = [table |-> stmt.table, shape |-> shape]
  <2>1. stmt = [table |-> stmt.table, shape |-> stmt.shape]
    BY DEF IsStatement
  <2>2. NotValid(stmt) = [stmt EXCEPT !.shape = shape]
    BY DEF NotValid, fks
  <2>. HIDE DEF shape
  <2>. QED BY <2>1, <2>2
<1>. HIDE DEF shape
<1>5. shape \in Kin(stmt.table)
  BY <1>3 DEF IsStatement, Kin
<1>6. stmt.table \in Tables
  BY DEF IsStatement
<1>7. NotValid(stmt).table = stmt.table /\ NotValid(stmt).shape = shape
  BY <1>4
<1>. QED BY <1>4, <1>5, <1>6, <1>7 DEF IsStatement

(****************************************************************************)
(* Order.                                                                   *)
(****************************************************************************)
LEMMA TablesAreFinite == IsFiniteSet(Tables)
<1>1. Len(TableNames) \in Nat /\ DOMAIN TableNames = 1..Len(TableNames)
  BY DriftAssumption, SeqIsSeq
<1>2. TableNames \in Surjection(1..Len(TableNames), Tables)
  BY <1>1, DriftAssumption DEF Surjection, Tables, Range
<1>3. IsFiniteSet(1..Len(TableNames))
  BY <1>1, FS_Interval
<1>. QED BY <1>2, <1>3, FS_Surjection

\* What the order of topoSortDDL is: no file before what it refers to.
IsOrder(s, files, ts) ==
  /\ s \in SetToSeqs(ts)
  /\ \A i, j \in DOMAIN s : s[j] \in Targets(files[s[i]]) => j <= i

LEMMA OrdersOfDDL ==
  ASSUME NEW ts
  PROVE  /\ Orders(ts) = {s \in SetToSeqs(ts) : IsOrder(s, ddl, ts)}
         /\ Acyclic(ddl, ts) <=> Orders(ts) # {}
         /\ Acyclic(ddl, ts) => IsOrder(CHOOSE s \in Orders(ts) : TRUE, ddl, ts)
BY DEF Orders, IsOrder, Acyclic

\* Some of the files can be put in order if all of them can.
LEMMA SomeInOrder ==
  ASSUME NEW files, NEW ts, ts \subseteq Tables, Acyclic(files, ts), NEW us, us \subseteq ts
  PROVE  Acyclic(files, us)
<1>1. IsFiniteSet(ts) /\ IsFiniteSet(us)
  BY TablesAreFinite, FS_Subset
<1>2. PICK s : IsOrder(s, files, ts)
  BY DEF Acyclic, IsOrder
<1> DEFINE n == Cardinality(ts)
           m == Cardinality(us)
           rank == [x \in ts |-> CHOOSE i \in 1..n : s[i] = x]
<1>3. n \in Nat /\ s \in [1..n -> ts] /\ \A x \in ts : \E i \in 1..n : s[i] = x
  BY <1>1, <1>2, EnumerationIsOnto DEF IsOrder
<1>4. \A x \in ts : rank[x] \in 1..n /\ s[rank[x]] = x
  BY <1>3
<1>5. m \in Nat
  BY <1>1, FS_CardinalityType
<1>. HIDE DEF n, rank
<1>6. (\A x \in us : rank[x] \in Nat) /\ \A x, y \in us : rank[x] = rank[y] => x = y
  BY <1>3, <1>4
<1>. HIDE DEF m
<1>7. PICK e \in [1..m -> us] : \A k, l \in 1..m : k < l => rank[e[k]] < rank[e[l]]
  <2>1. Cardinality(us) = m
    BY DEF m
  <2>. QED BY <1>1, <1>5, <1>6, <2>1, SortedEnumeration
<1>8. \A k, l \in 1..m : k # l => e[k] # e[l]
  <2>1. \A k \in 1..m : e[k] \in us /\ rank[e[k]] \in Nat
    BY <1>6
  <2>2. \A k, l \in 1..m : k # l => k < l \/ l < k
    BY <1>5
  <2>3. \A k, l \in 1..m : k < l => e[k] # e[l]
    BY <1>7, <2>1
  <2>. QED BY <2>2, <2>3
<1>9. e \in SetToSeqs(us)
  BY <1>8 DEF SetToSeqs, m
<1>10. \A i, j \in DOMAIN e : e[j] \in Targets(files[e[i]]) => j <= i
  <2>1. TAKE i, j \in DOMAIN e
  <2>2. HAVE e[j] \in Targets(files[e[i]])
  <2>3. i \in 1..m /\ j \in 1..m /\ e[i] \in ts /\ e[j] \in ts
    OBVIOUS
  <2>4. /\ rank[e[i]] \in 1..n /\ rank[e[j]] \in 1..n
        /\ s[rank[e[i]]] = e[i] /\ s[rank[e[j]]] = e[j]
    BY <1>4, <2>3
  <2>5. rank[e[j]] <= rank[e[i]]
    BY <1>2, <1>3, <2>2, <2>4 DEF IsOrder
  <2>6. ~(i < j)
    BY <1>3, <1>7, <2>3, <2>4, <2>5
  <2>. QED BY <1>5, <2>3, <2>6
<1>. QED BY <1>9, <1>10 DEF Acyclic

\* The statements leave exactly these tables, each once, in an order of the files.
Covers(stmts, files, ts) ==
  /\ IsScript(stmts) /\ Distinct(stmts)
  /\ \A i \in 1..Len(stmts) : stmts[i].table \in ts
  /\ \A t \in ts : \E i \in 1..Len(stmts) : stmts[i].table = t
  /\ \A i, j \in 1..Len(stmts) : stmts[j].table \in Targets(files[stmts[i].table]) => j <= i

LEMMA OrderedStatementsCover ==
  ASSUME NEW files, NEW ts, ts \subseteq Tables, NEW s, IsOrder(s, files, ts), NEW stmts,
         stmts = [i \in DOMAIN s |-> stmts[i]],
         \A i \in DOMAIN s : IsStatement(stmts[i]) /\ stmts[i].table = s[i]
  PROVE  Covers(stmts, files, ts)
<1> DEFINE n == Cardinality(ts)
<1>1. IsFiniteSet(ts)
  BY TablesAreFinite, FS_Subset
<1>2. /\ n \in Nat /\ s \in [1..n -> ts] /\ \A i, j \in 1..n : s[i] = s[j] => i = j
      /\ \A x \in ts : \E i \in 1..n : s[i] = x
  BY <1>1, EnumerationIsOnto DEF IsOrder
<1>. HIDE DEF n
<1>3. DOMAIN s = 1..n
  BY <1>2
<1>4. IsSeq(stmts) /\ Len(stmts) = n /\ DOMAIN stmts = 1..n
  BY <1>2, <1>3, FunctionIsASeq
<1>5. \A i, j \in 1..n : stmts[j].table \in Targets(files[stmts[i].table]) => j <= i
  BY <1>3 DEF IsOrder
<1>. QED BY <1>2, <1>3, <1>4, <1>5 DEF Covers, IsScript, Distinct

\* What a message's table is, is one of the shapes it may have.
LEMMA ShapesAreKin == ASSUME NEW t \in Tables PROVE Shapes[t] \subseteq Kin(t)
BY DriftAssumption DEF Kin

\* The DDL files of the listed tables are such a script (applyDDLFiles).
LEMMA StatementsCover ==
  ASSUME NEW ts, ts \subseteq Tables, \A t \in ts : ddl[t] \in Shapes[t], Acyclic(ddl, ts)
  PROVE  /\ Covers(Statements(ts), ddl, ts)
         /\ \A i \in 1..Len(Statements(ts)) : Statements(ts)[i].shape = ddl[Statements(ts)[i].table]
<1> DEFINE s == CHOOSE s \in Orders(ts) : TRUE
           stmts == Statements(ts)
<1>1. IsOrder(s, ddl, ts)
  BY OrdersOfDDL
<1>2. stmts = [i \in DOMAIN s |-> [table |-> s[i], shape |-> ddl[s[i]]]]
  BY DEF Statements
<1>. HIDE DEF s, stmts
<1>3. \A i \in DOMAIN s : s[i] \in ts
  BY <1>1 DEF IsOrder, SetToSeqs
<1>4. \A i \in DOMAIN s : /\ stmts[i] = [table |-> stmts[i].table, shape |-> stmts[i].shape]
                          /\ stmts[i].table = s[i] /\ stmts[i].shape = ddl[s[i]]
  BY <1>2
<1>5. \A i \in DOMAIN s : IsStatement(stmts[i])
  BY <1>3, <1>4, ShapesAreKin DEF IsStatement
<1>6. DOMAIN stmts = DOMAIN s /\ stmts = [i \in DOMAIN s |-> stmts[i]]
  BY <1>2
<1>7. Covers(stmts, ddl, ts)
  BY <1>1, <1>4, <1>5, <1>6, OrderedStatementsCover
<1>8. DOMAIN stmts = 1..Len(stmts)
  BY <1>7, SeqIsSeq DEF Covers, IsScript, IsSeq
<1>. QED BY <1>4, <1>6, <1>7, <1>8 DEF stmts

\* Files that can be applied refer to one another only.
LEMMA ApplicableFiles ==
  ASSUME NEW files, NEW ts, ts \subseteq Tables, Applicable(files, ts), NEW t \in ts
  PROVE  Targets(files[t]) \subseteq ts /\ {p.role : p \in files[t].policies} \subseteq Role
<1> DEFINE d == [x \in Tables |-> IF x \in ts THEN files[x] ELSE Absent]
           stmt == [table |-> t, shape |-> files[t]]
<1>1. Accepts(d, Role, stmt)
  BY DEF Applicable
<1>2. stmt.table = t /\ stmt.shape = files[t]
  OBVIOUS
<1>3. \A x \in DOMAIN d : d[x] # Absent => x \in ts
  OBVIOUS
<1>. HIDE DEF d, stmt
<1>. QED BY <1>1, <1>2, <1>3 DEF Accepts

\* A script that leaves some of the files' tables fits if the others of the
\* files are there and its shapes refer to what the files do.
LEMMA CoveringScriptFits ==
  ASSUME NEW files, NEW us, us \subseteq Tables, Applicable(files, us),
         NEW ts, ts \subseteq us, NEW stmts, Covers(stmts, files, ts),
         \A i \in 1..Len(stmts) : /\ Targets(stmts[i].shape) = Targets(files[stmts[i].table])
                                  /\ stmts[i].shape.policies = files[stmts[i].table].policies,
         NEW d, us \ ts \subseteq Present(d)
  PROVE  Fitting(stmts, d, Role)
<1>. SUFFICES ASSUME NEW i \in 1..Len(stmts)
              PROVE  /\ Targets(stmts[i].shape) \subseteq Present(d) \cup {stmts[j].table : j \in 1..i}
                     /\ {p.role : p \in stmts[i].shape.policies} \subseteq Role
  BY DEF Fitting
<1> DEFINE t == stmts[i].table
<1>1. t \in us /\ Targets(stmts[i].shape) = Targets(files[t]) /\ stmts[i].shape.policies = files[t].policies
  BY DEF Covers
<1>2. Targets(files[t]) \subseteq us /\ {p.role : p \in files[t].policies} \subseteq Role
  <2>. HIDE DEF t
  <2>. QED BY <1>1, ApplicableFiles
<1>3. \A x \in Targets(files[t]) : x \in Present(d) \cup {stmts[j].table : j \in 1..i}
  <2>1. TAKE x \in Targets(files[t])
  <2>2. CASE x \in ts
    <3>1. PICK j \in 1..Len(stmts) : stmts[j].table = x
      BY <2>2 DEF Covers
    <3>2. j <= i
      BY <3>1 DEF Covers
    <3>3. Len(stmts) \in Nat
      BY SeqIsSeq DEF Covers, IsScript, IsSeq
    <3>4. j \in 1..i
      BY <3>2, <3>3
    <3>. QED BY <3>1, <3>4
  <2>3. CASE x \notin ts
    BY <1>2, <2>3
  <2>. QED BY <2>2, <2>3
<1>. QED BY <1>1, <1>2, <1>3

LEMMA NothingIsADatabase == IsDatabase(Nothing) /\ Present(Nothing) = {}
BY DEF Nothing, IsDatabase, Present

\* What a covering script that goes well leaves of its tables, and of the others.
LEMMA CoveringScriptLeaves ==
  ASSUME NEW files, NEW ts, NEW stmts, Covers(stmts, files, ts),
         NEW d, IsDatabase(d), NEW roles, Run(d, roles, stmts).ok
  PROVE  /\ \A t \in Tables \ ts : Run(d, roles, stmts).db[t] = d[t]
         /\ \A t \in ts : \E i \in 1..Len(stmts) :
              stmts[i].table = t /\ Run(d, roles, stmts).db[t] = stmts[i].shape
<1>1. IsScript(stmts) /\ Distinct(stmts)
  BY DEF Covers
<1> DEFINE e == Run(d, roles, stmts).db
<1>2. /\ \A i \in 1..Len(stmts) : e[stmts[i].table] = stmts[i].shape
      /\ \A t \in Tables : (\A i \in 1..Len(stmts) : stmts[i].table # t) => e[t] = d[t]
  BY <1>1, RunLeaves
<1>. HIDE DEF e
<1>3. \A t \in ts : \E i \in 1..Len(stmts) : stmts[i].table = t /\ e[t] = stmts[i].shape
  BY <1>2 DEF Covers
<1>4. \A t \in Tables \ ts : e[t] = d[t]
  BY <1>2 DEF Covers
<1>. QED BY <1>3, <1>4 DEF e

\* The DDL files make what they say, and can be applied if they refer to one
\* another only (applyDDLFiles).
LEMMA DDLFilesMake ==
  ASSUME NEW ts, ts \subseteq Tables, \A t \in ts : ddl[t] \in Shapes[t], Acyclic(ddl, ts)
  PROVE  /\ Applicable(ddl, ts) => Run(Nothing, Role, Statements(ts)).ok
         /\ Run(Nothing, Role, Statements(ts)).ok =>
              \A t \in ts : Run(Nothing, Role, Statements(ts)).db[t] = ddl[t]
<1> DEFINE stmts == Statements(ts)
<1>1. /\ Covers(stmts, ddl, ts)
      /\ \A i \in 1..Len(stmts) : stmts[i].shape = ddl[stmts[i].table]
  BY StatementsCover
<1>. HIDE DEF stmts
<1>2. IsScript(stmts) /\ Distinct(stmts)
  BY <1>1 DEF Covers
<1>3. ASSUME Applicable(ddl, ts) PROVE Run(Nothing, Role, stmts).ok
  <2>1. Fitting(stmts, Nothing, Role)
    <3>1. ts \ ts \subseteq Present(Nothing) /\ ts \subseteq ts
      OBVIOUS
    <3>. QED BY <1>1, <1>3, <3>1, CoveringScriptFits
  <2>. QED BY <1>2, <2>1, NothingIsADatabase, RunGoesWell
<1>4. ASSUME Run(Nothing, Role, stmts).ok
      PROVE  \A t \in ts : Run(Nothing, Role, stmts).db[t] = ddl[t]
  BY <1>1, <1>4, NothingIsADatabase, CoveringScriptLeaves
<1>. QED BY <1>3, <1>4 DEF stmts

\* The migrations are a script (applyMigrations).
LEMMA ChainIsAScript ==
  ASSUME TypeInv
  PROVE  /\ IsSeq(chain) /\ \A k \in DOMAIN chain : IsSeq(chain[k])
         /\ IsScript(FlattenSeq(chain))
<1>1. IsSeq(chain) /\ \A k \in DOMAIN chain : IsScript(chain[k])
  BY DEF TypeInv
<1>2. \A k \in DOMAIN chain : IsSeq(chain[k])
  BY <1>1 DEF IsScript
<1>3. /\ IsSeq(FlattenSeq(chain))
      /\ Range(FlattenSeq(chain)) = UNION {Range(chain[k]) : k \in DOMAIN chain}
  BY <1>1, <1>2, FlattenSeqRange
<1>4. \A x \in Range(FlattenSeq(chain)) : IsStatement(x)
  BY <1>1, <1>3 DEF IsScript, Range
<1>. QED BY <1>1, <1>2, <1>3, <1>4 DEF IsScript, Range

(****************************************************************************)
(* What diff asks for.                                                      *)
(****************************************************************************)
\* Tables that look the same refer to the same.
LEMMA SameSnapshotSameReferences ==
  ASSUME NEW x \in Table, NEW y \in Table, SnapshotTable(x) = SnapshotTable(y)
  PROVE  Targets(x) = Targets(y) /\ x.policies = y.policies
<1>1. /\ SnapshotTable(x).fks = FetchForeignKeys(x) /\ SnapshotTable(y).fks = FetchForeignKeys(y)
      /\ SnapshotTable(x).policies = x.policies /\ SnapshotTable(y).policies = y.policies
  BY AbsentAssumption DEF SnapshotTable
<1>2. \A z : Targets(z) = {b.body[2] : b \in FetchForeignKeys(z)}
  <2>1. TAKE z
  <2> DEFINE Read(f) == [name |-> f.name, body |-> <<f.columns, f.target>>, validated |-> f.validated,
                         backed |-> HasBackingIndex(z, f.columns)]
  <2>2. FetchForeignKeys(z) = {Read(f) : f \in z.fks} /\ Targets(z) = {f.target : f \in z.fks}
    BY DEF FetchForeignKeys, Targets
  <2>3. \A f : Read(f).body[2] = f.target
    OBVIOUS
  <2>. HIDE DEF Read
  <2>4. \A b \in FetchForeignKeys(z) : b.body[2] \in Targets(z)
    BY <2>2, <2>3
  <2>5. \A f \in z.fks : f.target \in {b.body[2] : b \in FetchForeignKeys(z)}
    BY <2>2, <2>3
  <2>. QED BY <2>2, <2>4, <2>5
<1>. QED BY <1>1, <1>2

\* What the two databases hold once both are made, and what differs.
LEMMA WhatIsCompared ==
  ASSUME TypeInv, CommandInv, pc = "compare" \/ (pc = "teardown" /\ verdict # "error")
  PROVE  /\ IsDatabase(Migrated.db) /\ Migrated.ok /\ Acyclic(ddl, listed)
         /\ \A t \in listed :
              /\ t \in Tables /\ ddl[t] \in Shapes[t] /\ ddl[t] \in Kin(t) /\ ddl[t] \in Table /\ ddl[t].columns # {}
              /\ db["ddl"][t] = ddl[t] /\ db["migrations"][t] = Migrated.db[t]
              /\ Differs(t) <=> SnapshotTable(Migrated.db[t]) # SnapshotTable(ddl[t])
<1>1. pc # "idle" /\ \A s \in Sides : stage[s] = "done"
  BY DEF CommandInv
<1>2. /\ Acyclic(ddl, listed) /\ Declared.ok /\ db["ddl"] = Declared.db
      /\ Migrated.ok /\ db["migrations"] = Migrated.db
  BY <1>1 DEF CommandInv, Sides
<1>3. IsDatabase(Migrated.db)
  BY ChainIsAScript, NothingIsADatabase, RunIsADatabase DEF IsOutcome, Migrated
<1>4. listed \subseteq Tables /\ \A t \in listed : ddl[t] \in Shapes[t]
  BY <1>1 DEF CommandInv, TypeInv
<1>5. \A t \in listed : Declared.db[t] = ddl[t]
  BY <1>2, <1>4, DDLFilesMake DEF Declared
<1>6. ASSUME NEW t \in listed
      PROVE  /\ t \in Tables /\ ddl[t] \in Shapes[t] /\ ddl[t] \in Kin(t) /\ ddl[t] \in Table /\ ddl[t].columns # {}
             /\ db["ddl"][t] = ddl[t] /\ db["migrations"][t] = Migrated.db[t]
  <2>1. t \in Tables /\ ddl[t] \in Shapes[t]
    BY <1>4
  <2>2. ddl[t] \in Kin(t) /\ ddl[t] \in Table /\ ddl[t].columns # {}
    BY <2>1, ShapesAreKin, DriftAssumption
  <2>. QED BY <1>2, <1>5, <2>1, <2>2
<1>7. ASSUME NEW t \in listed
      PROVE  Differs(t) <=> SnapshotTable(Migrated.db[t]) # SnapshotTable(ddl[t])
  <2>1. /\ Snapshot("ddl", t) = SnapshotTable(ddl[t])
        /\ Snapshot("migrations", t) = SnapshotTable(Migrated.db[t])
    BY <1>6 DEF Snapshot
  <2>2. Snapshot("ddl", t) # Snapshot("migrations", t)
          <=> ComputeTableDelta(Snapshot("migrations", t), Snapshot("ddl", t)) # {}
    BY CheckAndDiffAgree DEF Snapshot
  <2>3. Migrated.db[t] = Absent => SnapshotTable(Migrated.db[t]) # SnapshotTable(ddl[t])
    <3>1. ddl[t] # Absent
      BY <1>6, AbsentAssumption
    <3>2. SnapshotTable(ddl[t]).columns = FetchColumns(ddl[t])
      BY <3>1 DEF SnapshotTable
    <3>3. FetchColumns(ddl[t]) # {}
      BY <1>6 DEF FetchColumns
    <3>4. SnapshotTable(Absent).columns = {}
      BY DEF SnapshotTable, NoTable
    <3>. QED BY <3>2, <3>3, <3>4
  <2>4. db["migrations"][t] = Migrated.db[t]
    BY <1>6
  <2>. HIDE DEF Migrated
  <2>. QED BY <2>1, <2>2, <2>3, <2>4 DEF Differs
<1>. QED BY <1>2, <1>3, <1>6, <1>7

\* The statements of the brief (Report).
Closings ==
  LET order == CHOOSE s \in Orders(failures) : TRUE
  IN [i \in DOMAIN order |-> Closing(order[i])]

\* Each of them mends its table.
LEMMA ClosingMends ==
  ASSUME TypeInv, CommandInv, pc = "compare", NEW t \in listed
  PROVE  /\ IsStatement(Closing(t)) /\ Closing(t).table = t
         /\ Closing(t).shape \in Table
         /\ SnapshotTable(Closing(t).shape) = SnapshotTable(ddl[t])
<1> DEFINE current == db["migrations"][t]
           delta == ComputeTableDelta(Snapshot("migrations", t), Snapshot("ddl", t))
           shape == IF current = Absent THEN ddl[t] ELSE Close(current, ddl[t], delta)
<1>1. /\ IsDatabase(Migrated.db) /\ t \in Tables /\ ddl[t] \in Kin(t) /\ ddl[t] \in Table
      /\ db["ddl"][t] = ddl[t] /\ current = Migrated.db[t]
  BY WhatIsCompared
<1>2. Closing(t) = [table |-> t, shape |-> shape]
  BY DEF Closing
<1>3. current \in Kin(t) \cup {Absent}
  BY <1>1 DEF IsDatabase
<1>4. delta = ComputeTableDelta(SnapshotTable(current), SnapshotTable(ddl[t]))
  BY <1>1 DEF Snapshot
<1>5. shape \in Kin(t) /\ SnapshotTable(shape) = SnapshotTable(ddl[t])
  <2>1. CASE current = Absent
    BY <1>1, <2>1
  <2>2. CASE current # Absent
    <3>1. current \in Kin(t) /\ current \in Table /\ shape = Close(current, ddl[t], delta)
      BY <1>3, <2>2 DEF Kin
    <3>. HIDE DEF current, delta, shape
    <3>. QED BY <1>1, <1>4, <3>1, CloseIsKin, CloseCloses
  <2>. QED BY <2>1, <2>2
<1>. HIDE DEF shape
<1>6. Closing(t).table = t /\ Closing(t).shape = shape
  BY <1>2
<1>7. shape \in Table
  BY <1>5 DEF Kin
<1>. QED BY <1>1, <1>2, <1>5, <1>6, <1>7 DEF IsStatement

\* All of them, applied to what the migrations have made, make what the DDL
\* files say (emitLLMBrief).
LEMMA ClosingsSettle ==
  ASSUME TypeInv, CommandInv, pc = "compare", todo = {}
  PROVE  IsScript(Closings) /\ Settles(FlattenSeq(chain) \o Closings, ddl, listed)
<1> DEFINE order == CHOOSE s \in Orders(failures) : TRUE
           past == FlattenSeq(chain)
<1>1. /\ IsDatabase(Migrated.db) /\ Migrated.ok /\ Acyclic(ddl, listed)
      /\ listed \subseteq Tables /\ failures \subseteq listed
      /\ \A t \in listed : /\ ddl[t] \in Table /\ ddl[t].columns # {} /\ ddl[t] # Absent
                           /\ t \in failures <=> SnapshotTable(Migrated.db[t]) # SnapshotTable(ddl[t])
  <2>1. failures = {t \in listed : Differs(t)}
    BY DEF CommandInv
  <2>2. listed \subseteq Tables /\ failures \subseteq listed
    BY DEF TypeInv
  <2>. QED BY <2>1, <2>2, WhatIsCompared, AbsentAssumption
<1>2. IsOrder(order, ddl, failures)
  <2>1. Acyclic(ddl, failures)
    BY <1>1, SomeInOrder
  <2>. QED BY <2>1, OrdersOfDDL
<1>3. Closings = [i \in DOMAIN order |-> Closing(order[i])]
  BY DEF Closings
<1>. HIDE DEF order, past
<1>4. \A i \in DOMAIN order : order[i] \in failures
  BY <1>2 DEF IsOrder, SetToSeqs
<1>5. \A i \in DOMAIN order :
         /\ IsStatement(Closings[i]) /\ Closings[i].table = order[i]
         /\ Closings[i].shape \in Table
         /\ SnapshotTable(Closings[i].shape) = SnapshotTable(ddl[order[i]])
  <2>1. TAKE i \in DOMAIN order
  <2>2. order[i] \in listed /\ Closings[i] = Closing(order[i])
    BY <1>1, <1>3, <1>4
  <2>. QED BY <2>2, ClosingMends
<1>6. Covers(Closings, ddl, failures)
  <2>1. Closings = [i \in DOMAIN order |-> Closings[i]] /\ failures \subseteq Tables
    BY <1>1, <1>3
  <2>. QED BY <1>2, <1>5, <2>1, OrderedStatementsCover
<1>7. DOMAIN order = 1..Len(Closings)
  <2>1. DOMAIN Closings = DOMAIN order
    BY <1>3
  <2>. QED BY <1>6, <2>1, SeqIsSeq DEF Covers, IsScript, IsSeq
<1>8. \A i \in 1..Len(Closings) :
         /\ Closings[i].table \in listed
         /\ SnapshotTable(Closings[i].shape) = SnapshotTable(ddl[Closings[i].table])
         /\ Targets(Closings[i].shape) = Targets(ddl[Closings[i].table])
         /\ Closings[i].shape.policies = ddl[Closings[i].table].policies
  <2>1. TAKE i \in 1..Len(Closings)
  <2>2. /\ order[i] \in listed /\ Closings[i].table = order[i] /\ Closings[i].shape \in Table
        /\ SnapshotTable(Closings[i].shape) = SnapshotTable(ddl[order[i]])
    BY <1>1, <1>4, <1>5, <1>7
  <2>. QED BY <1>1, <2>2, SameSnapshotSameReferences
<1>9. listed \ failures \subseteq Present(Migrated.db)
  <2>1. SUFFICES ASSUME NEW t \in listed \ failures PROVE t \in Present(Migrated.db)
    OBVIOUS
  <2>2. Migrated.db[t] # Absent
    BY <1>1, SnapshotShows
  <2>. QED BY <1>1, <2>2 DEF Present, IsDatabase
<1>10. ASSUME Applicable(ddl, listed)
       PROVE  /\ Run(Nothing, Role, past \o Closings).ok
              /\ \A t \in listed :
                   SnapshotTable(Run(Nothing, Role, past \o Closings).db[t]) = SnapshotTable(ddl[t])
  <2> DEFINE d == Migrated.db
             e == Run(d, Role, Closings)
  <2>1. Fitting(Closings, d, Role)
    <3>. HIDE DEF d
    <3>. QED BY <1>1, <1>6, <1>8, <1>9, <1>10, CoveringScriptFits DEF d
  <2>2. Run(Nothing, Role, past \o Closings) = e
    <3>1. IsScript(past) /\ IsScript(Closings) /\ Run(Nothing, Role, past).ok
      BY <1>1, <1>6, ChainIsAScript DEF past, Migrated, Covers
    <3>2. Run(Nothing, Role, past).db = d
      BY DEF past, Migrated
    <3>3. Run(Nothing, Role, past \o Closings) = Run(Run(Nothing, Role, past).db, Role, Closings)
      BY <3>1, NothingIsADatabase, RunConcat
    <3>. QED BY <3>2, <3>3
  <2>. HIDE DEF d
  <2>3. IsDatabase(d)
    BY <1>1 DEF d
  <2>4. e.ok
    BY <1>6, <2>1, <2>3, RunGoesWell DEF Covers
  <2>5. /\ \A t \in Tables \ failures : e.db[t] = d[t]
        /\ \A t \in failures : \E i \in 1..Len(Closings) :
             Closings[i].table = t /\ e.db[t] = Closings[i].shape
    BY <1>6, <2>3, <2>4, CoveringScriptLeaves
  <2>. HIDE DEF e
  <2>6. \A t \in listed : SnapshotTable(e.db[t]) = SnapshotTable(ddl[t])
    <3>1. TAKE t \in listed
    <3>2. CASE t \in failures
      BY <1>8, <2>5, <3>2
    <3>3. CASE t \notin failures
      BY <1>1, <2>5, <3>3 DEF d
    <3>. QED BY <3>2, <3>3
  <2>. QED BY <2>2, <2>4, <2>6
<1>. QED BY <1>1, <1>6, <1>10 DEF Settles, Covers, past

(****************************************************************************)
(* The invariant holds: types.                                              *)
(****************************************************************************)
LEMMA EmptyScript == IsScript(<<>>) /\ IsSeq(<<>>) /\ FlattenSeq(<<>>) = <<>> /\ Len(<<>>) = 0
<1>1. IsSeq(<<>>) /\ Len(<<>>) = 0 /\ DOMAIN <<>> = {}
  BY DEF IsSeq, Range
<1>2. FlattenSeq(<<>>) = <<>>
  BY <1>1 DEF FlattenSeq
<1>. QED BY <1>1, <1>2 DEF IsScript

LEMMA InitTypeInv == Init => TypeInv
<1>. SUFFICES ASSUME Init PROVE TypeInv
  OBVIOUS
<1>1. IsScript(<<>>) /\ IsSeq(<<>>) /\ DOMAIN <<>> = {} /\ Len(<<>>) = 0
  BY EmptyScript
<1>2. /\ scaffold = [stmts |-> scaffold.stmts, ddl |-> scaffold.ddl, listed |-> scaffold.listed]
      /\ scaffold.stmts = <<>> /\ scaffold.listed = {}
  BY DEF Init
<1>3. db = [s \in Sides |-> db[s]] /\ \A s \in Sides : IsDatabase(db[s])
  BY NothingIsADatabase DEF Init
<1>4. ddl = [t \in Tables |-> ddl[t]] /\ \A t \in Tables : ddl[t] \in Shapes[t] \cup {Absent}
  BY DEF Init, Nothing
<1>5. chain = <<>> /\ edits \in 0..MaxEdits /\ 0 <= MaxMigrations
  BY DriftAssumption DEF Init
<1>. QED BY <1>1, <1>2, <1>3, <1>4, <1>5 DEF Init, TypeInv

\* The migrations the developer may write are scripts: all of the scaffold, all
\* but the last statement, or its constraints unvalidated.
LEMMA WrittenIsAScript ==
  ASSUME NEW stmts, IsScript(stmts), stmts # <<>>
  PROVE  IsScript(Front(stmts)) /\ IsScript([i \in DOMAIN stmts |-> NotValid(stmts[i])])
<1>1. Len(stmts) \in Nat /\ DOMAIN stmts = 1..Len(stmts) /\ stmts \in Seq(Range(stmts))
  BY SeqIsSeq DEF IsScript, IsSeq
<1>2. IsScript([i \in DOMAIN stmts |-> NotValid(stmts[i])])
  <2> DEFINE n == Len(stmts)
             q == [i \in 1..n |-> NotValid(stmts[i])]
  <2>1. \A i \in 1..n : IsStatement(q[i])
    BY <1>1, NotValidIsAStatement DEF IsScript
  <2>2. IsSeq(q) /\ DOMAIN q = 1..n
    <3>1. n \in Nat /\ q = [i \in 1..n |-> q[i]]
      BY <1>1
    <3>. HIDE DEF n, q
    <3>. QED BY <3>1, FunctionIsASeq
  <2>. HIDE DEF q
  <2>3. IsScript(q)
    BY <2>1, <2>2 DEF IsScript
  <2>. QED BY <1>1, <2>3 DEF q
<1>3. IsScript(Front(stmts))
  <2> DEFINE S == Range(stmts)
             m == Len(stmts) - 1
             f == SubSeq(stmts, 1, m)
  <2>1. Len(stmts) # 0
    BY <1>1, EmptySeq
  <2>2. m \in Nat /\ \A i \in 1..m : stmts[i] \in S
    BY <1>1, <2>1 DEF Range
  <2>3. f \in Seq(S)
    <3>. HIDE DEF S, m
    <3>1. 1 \in Int /\ m \in Int
      BY <2>2
    <3>. QED BY <2>2, <3>1, SubSeqProperties
  <2>. HIDE DEF f, m
  <2>4. IsSeq(f) /\ Range(f) \subseteq S
    BY <2>3, SeqIsSeq
  <2>5. \A x \in S : IsStatement(x)
    BY DEF IsScript, Range
  <2>6. \A k \in DOMAIN f : IsStatement(f[k])
    BY <2>4, <2>5 DEF Range
  <2>. QED BY <2>4, <2>6 DEF IsScript, Front, f, m
<1>. QED BY <1>2, <1>3

\* One migration more.
LEMMA ChainGrows ==
  ASSUME TypeInv, NEW stmts, IsScript(stmts), Len(chain) < MaxMigrations
  PROVE  /\ IsSeq(Append(chain, stmts)) /\ Len(Append(chain, stmts)) <= MaxMigrations
         /\ \A k \in DOMAIN Append(chain, stmts) : IsScript(Append(chain, stmts)[k])
         /\ FlattenSeq(Append(chain, stmts)) = FlattenSeq(chain) \o stmts
<1> DEFINE S == Range(chain) \cup {stmts}
           c == Append(chain, stmts)
<1>1. IsSeq(chain) /\ DOMAIN chain = 1..Len(chain) /\ Len(chain) \in Nat
  BY SeqIsSeq DEF TypeInv, IsSeq
<1>2. chain \in Seq(S) /\ stmts \in S
  BY <1>1, SeqMonotonic DEF IsSeq
<1>. HIDE DEF S
<1>3. c \in Seq(S) /\ Len(c) = Len(chain) + 1
  BY <1>2, AppendProperties
<1>4. IsSeq(c) /\ Range(c) \subseteq S
  BY <1>3, SeqIsSeq
<1>5. \A x \in S : IsScript(x)
  BY DEF TypeInv, Range, S
<1>. HIDE DEF c
<1>6. \A k \in DOMAIN c : IsScript(c[k])
  BY <1>4, <1>5 DEF Range
<1>7. Len(c) <= MaxMigrations
  BY <1>1, <1>3, DriftAssumption
<1>8. FlattenSeq(c) = FlattenSeq(chain) \o stmts
  <2>1. IsSeq(stmts) /\ \A k \in DOMAIN chain : IsSeq(chain[k])
    BY ChainIsAScript DEF IsScript
  <2>. QED BY <1>1, <2>1, FlattenSeqAppend DEF c
<1>. QED BY <1>4, <1>6, <1>7, <1>8 DEF c

LEMMA WriteMigrationKeepsTypeInv ==
  ASSUME TypeInv, WriteMigration
  PROVE  TypeInv'
<1>1. /\ Len(chain) < MaxMigrations /\ IsScript(scaffold.stmts) /\ scaffold.stmts # <<>>
      /\ scaffold.listed \subseteq Tables
  BY DEF WriteMigration, TypeInv
<1>2. PICK s : IsScript(s) /\ chain' = Append(chain, s)
  BY <1>1, WrittenIsAScript DEF WriteMigration
<1>3. IsSeq(chain') /\ Len(chain') <= MaxMigrations /\ \A k \in DOMAIN chain' : IsScript(chain'[k])
  BY <1>1, <1>2, ChainGrows
<1>4. /\ scaffold' = [stmts |-> scaffold'.stmts, ddl |-> scaffold'.ddl, listed |-> scaffold'.listed]
      /\ scaffold'.stmts = <<>> /\ scaffold'.listed = scaffold.listed
  <2>1. /\ scaffold = [stmts |-> scaffold.stmts, ddl |-> scaffold.ddl, listed |-> scaffold.listed]
        /\ scaffold' = [scaffold EXCEPT !.stmts = <<>>]
    BY DEF WriteMigration, TypeInv
  <2>. QED BY <2>1
<1>5. settled' \subseteq Tables
  BY <1>1 DEF WriteMigration
<1>6. UNCHANGED <<ddl, edits, run, pc>>
  BY DEF WriteMigration
<1>7. UNCHANGED <<cmd, listed, stage, pg, db, todo, failures, verdict>>
  BY <1>6 DEF run
<1>. QED BY <1>1, <1>3, <1>4, <1>5, <1>6, <1>7, EmptyScript DEF TypeInv, IsDatabase

\* What a run is about, is there.
LEMMA DiscoverFinds ==
  ASSUME NEW scope
  PROVE  Discover(scope) \subseteq Tables /\ \A t \in Discover(scope) : ddl[t] # Absent
BY DEF Discover

\* The first migration is the DDL files (emitInitialFromDDL).
LEMMA FirstScaffold ==
  ASSUME TypeInv, NEW c, NEW scope, RunWithoutDatabases(c, scope)
  PROVE  \/ UNCHANGED dev
         \/ /\ UNCHANGED <<ddl, chain, edits, settled>> /\ chain = <<>>
            /\ scaffold' = [stmts |-> Statements(listed'), ddl |-> ddl, listed |-> listed']
            /\ listed' \subseteq Tables /\ Acyclic(ddl, listed')
            /\ \A t \in listed' : ddl[t] # Absent /\ ddl[t] \in Shapes[t]
            /\ IsScript(Statements(listed'))
<1>1. CASE UNCHANGED dev
  BY <1>1
<1>2. CASE ~UNCHANGED dev
  <2>1. /\ UNCHANGED <<ddl, chain, edits, settled>> /\ chain = <<>> /\ Orders(listed') # {}
        /\ scaffold' = [stmts |-> Statements(listed'), ddl |-> ddl, listed |-> listed']
    BY <1>2 DEF RunWithoutDatabases, HasNonEmptyMigrations
  <2>2. listed' \subseteq Tables /\ \A t \in listed' : ddl[t] # Absent /\ ddl[t] \in Shapes[t]
    BY DiscoverFinds DEF RunWithoutDatabases, Begin, TypeInv
  <2>3. Acyclic(ddl, listed')
    BY <2>1, OrdersOfDDL
  <2>4. IsScript(Statements(listed'))
    BY <2>2, <2>3, StatementsCover DEF Covers
  <2>. QED BY <2>1, <2>2, <2>3, <2>4
<1>. QED BY <1>1, <1>2

LEMMA BeginKeepsTypeInv ==
  ASSUME TypeInv, NEW c \in {"check", "diff"}, NEW scope,
         RunWithoutDatabases(c, scope) \/ RunWithDatabases(c, scope)
  PROVE  TypeInv'
<1>1. Begin(c, scope) /\ pc' \in {"idle", "bootstrap"} /\ verdict' \in {"none", "error", "scaffold"}
  BY DEF RunWithoutDatabases, RunWithDatabases
<1>2. /\ cmd' \in {"check", "diff"} /\ listed' \subseteq Tables /\ failures' \subseteq listed' /\ todo' \subseteq listed'
      /\ stage' \in [Sides -> {"start", "prepare", "apply", "done", "failed"}]
      /\ pg' \in [Sides -> {"none", "running", "lost", "left", "terminated"}]
  BY <1>1, DiscoverFinds DEF Begin
<1>3. db' = [s \in Sides |-> db'[s]] /\ \A s \in Sides : IsDatabase(db'[s])
  BY <1>1, NothingIsADatabase DEF Begin
<1>4. /\ UNCHANGED <<ddl, chain, edits, settled>>
      /\ scaffold' = [stmts |-> scaffold'.stmts, ddl |-> scaffold'.ddl, listed |-> scaffold'.listed]
      /\ IsScript(scaffold'.stmts) /\ scaffold'.listed \subseteq Tables
  <2>1. CASE UNCHANGED dev
    BY <2>1 DEF TypeInv, dev
  <2>2. CASE ~UNCHANGED dev
    <3>1. RunWithoutDatabases(c, scope)
      BY <2>2 DEF RunWithDatabases
    <3>2. /\ UNCHANGED <<ddl, chain, edits, settled>>
          /\ scaffold' = [stmts |-> Statements(listed'), ddl |-> ddl, listed |-> listed']
          /\ listed' \subseteq Tables /\ IsScript(Statements(listed'))
      BY <2>2, <3>1, FirstScaffold
    <3>. QED BY <3>2
  <2>. QED BY <2>1, <2>2
<1>. QED BY <1>1, <1>2, <1>3, <1>4 DEF TypeInv, IsDatabase

\* The next table to compare is one of those left.
LEMMA FirstIsLeft == ASSUME NEW ts, ts \subseteq Tables, ts # {} PROVE First(ts) \in ts
<1> DEFINE P == {i \in DOMAIN TableNames : TableNames[i] \in ts}
<1>1. P \subseteq Nat /\ P # {}
  <2>1. DOMAIN TableNames = 1..Len(TableNames) /\ Len(TableNames) \in Nat
    BY DriftAssumption, SeqIsSeq
  <2>. QED BY <2>1 DEF Tables, Range
<1>2. Min(P) \in P
  <2>. HIDE DEF P
  <2>1. \E x \in P : \A y \in P : x <= y
    BY <1>1, NatLeast
  <2>. QED BY <2>1 DEF Min
<1>. QED BY <1>2 DEF First

\* What is done with one database leaves the other alone.
LEMMA OneDatabaseIsMade ==
  ASSUME TypeInv, NEW s \in Sides, NEW d, IsDatabase(d), db' = [db EXCEPT ![s] = d]
  PROVE  db' = [x \in Sides |-> db'[x]] /\ \A x \in Sides : IsDatabase(db'[x])
BY DEF TypeInv

\* One side fails for a reason outside the commands.
Breaks(s) == stage' = [stage EXCEPT ![s] = "failed"] /\ broken' /\ UNCHANGED db

LEMMA ApplyKeepsTypeInv ==
  ASSUME TypeInv, CommandInv, ApplyDDLFiles \/ ApplyMigrations
  PROVE  TypeInv'
<1>1. CASE ApplyDDLFiles
  <2>1. /\ stage' \in [Sides -> {"start", "prepare", "apply", "done", "failed"}]
        /\ UNCHANGED <<dev, pc, cmd, listed, pg, todo, failures, verdict>>
    BY <1>1 DEF ApplyDDLFiles, TypeInv
  <2>2. db' = [s \in Sides |-> db'[s]] /\ \A s \in Sides : IsDatabase(db'[s])
    <3>1. CASE Breaks("ddl")
      BY <3>1 DEF Breaks, TypeInv
    <3>2. CASE ~Breaks("ddl") /\ Orders(listed) = {}
      <4>1. db' = [db EXCEPT !["ddl"] = Nothing]
        BY <1>1, <3>2 DEF ApplyDDLFiles, Breaks
      <4>. QED BY <4>1, NothingIsADatabase, OneDatabaseIsMade DEF Sides
    <3>3. CASE ~Breaks("ddl") /\ Orders(listed) # {}
      <4>1. db' = [db EXCEPT !["ddl"] = Declared.db]
        BY <1>1, <3>3 DEF ApplyDDLFiles, Declared, Breaks
      <4>2. listed \subseteq Tables /\ \A t \in listed : ddl[t] \in Shapes[t]
        BY <1>1 DEF ApplyDDLFiles, CommandInv, TypeInv
      <4>3. IsScript(Statements(listed))
        BY <3>3, <4>2, OrdersOfDDL, StatementsCover DEF Covers
      <4>4. IsDatabase(Declared.db)
        BY <4>3, NothingIsADatabase, RunIsADatabase DEF Declared, IsOutcome
      <4>. HIDE DEF Declared
      <4>. QED BY <4>1, <4>4, OneDatabaseIsMade DEF Sides
    <3>. QED BY <3>1, <3>2, <3>3
  <2>. QED BY <2>1, <2>2 DEF TypeInv, IsDatabase, dev
<1>2. CASE ApplyMigrations
  <2>1. /\ stage' \in [Sides -> {"start", "prepare", "apply", "done", "failed"}]
        /\ UNCHANGED <<dev, pc, cmd, listed, pg, todo, failures, verdict>>
        /\ Breaks("migrations") \/ db' = [db EXCEPT !["migrations"] = Migrated.db]
    BY <1>2 DEF ApplyMigrations, TypeInv, Migrated, Breaks
  <2>2. IsDatabase(Migrated.db)
    BY ChainIsAScript, NothingIsADatabase, RunIsADatabase DEF Migrated, IsOutcome
  <2>3. db' = [s \in Sides |-> db'[s]] /\ \A s \in Sides : IsDatabase(db'[s])
    <3>. HIDE DEF Migrated
    <3>1. CASE Breaks("migrations")
      BY <3>1 DEF Breaks, TypeInv
    <3>. QED BY <2>1, <2>2, <3>1, OneDatabaseIsMade DEF Sides
  <2>. QED BY <2>1, <2>3 DEF TypeInv, IsDatabase, dev
<1>. QED BY <1>1, <1>2

\* No step of the developer, of a command or of the clock leaves the types.
LEMMA NextKeepsTypeInv ==
  ASSUME TypeInv, CommandInv, [Next]_vars
  PROVE  TypeInv'
<1>1. ASSUME NEW t \in Tables, EditMessage(t) PROVE TypeInv'
  <2>1. PICK s \in Shapes[t] \cup {Absent} : ddl' = [ddl EXCEPT ![t] = s]
    BY <1>1 DEF EditMessage
  <2>2. ddl' = [x \in Tables |-> ddl'[x]] /\ \A x \in Tables : ddl'[x] \in Shapes[x] \cup {Absent}
    BY <2>1 DEF TypeInv
  <2>3. edits' \in 0..MaxEdits /\ settled' = {} /\ UNCHANGED <<scaffold, chain, run, pc>>
    BY <1>1, DriftAssumption DEF EditMessage, TypeInv
  <2>. QED BY <2>2, <2>3 DEF TypeInv, IsDatabase, run
<1>2. CASE WriteMigration
  BY <1>2, WriteMigrationKeepsTypeInv
<1>3. CASE \E c \in {"check", "diff"}, scope \in Scopes :
             RunWithoutDatabases(c, scope) \/ RunWithDatabases(c, scope)
  BY <1>3, BeginKeepsTypeInv
<1>4. CASE \E s \in Sides : StartPostgres(s) \/ PrepareDatabase(s)
  <2>1. PICK s \in Sides : StartPostgres(s) \/ PrepareDatabase(s)
    BY <1>4
  <2>2. /\ stage' \in [Sides -> {"start", "prepare", "apply", "done", "failed"}]
        /\ pg' \in [Sides -> {"none", "running", "lost", "left", "terminated"}]
    <3>1. CASE StartPostgres(s)
      BY <3>1 DEF StartPostgres, TypeInv
    <3>2. CASE PrepareDatabase(s)
      BY <3>2 DEF PrepareDatabase, TypeInv
    <3>. QED BY <2>1, <3>1, <3>2
  <2>3. UNCHANGED <<dev, pc, cmd, listed, db, todo, failures, verdict>>
    BY <2>1 DEF StartPostgres, PrepareDatabase
  <2>. QED BY <2>2, <2>3 DEF TypeInv, IsDatabase, dev
<1>5. CASE ApplyDDLFiles \/ ApplyMigrations
  BY <1>5, ApplyKeepsTypeInv
<1>6. CASE AwaitBoth
  BY <1>6 DEF AwaitBoth, TypeInv, IsDatabase, dev
<1>7. CASE CompareTable
  <2>1. First(todo) \in todo /\ todo \subseteq listed
    BY <1>7, FirstIsLeft DEF CompareTable, TypeInv
  <2>. QED BY <1>7, <2>1 DEF CompareTable, TypeInv, IsDatabase, dev
<1>8. CASE Report
  <2>1. /\ UNCHANGED <<ddl, chain, edits, settled, cmd, listed, stage, pg, db, todo, failures>>
        /\ pc' = "teardown" /\ verdict' \in {"ok", "drift", "scaffold"} /\ pc = "compare" /\ todo = {}
        /\ scaffold' = scaffold \/ scaffold' = [stmts |-> Closings, ddl |-> ddl, listed |-> listed]
    BY <1>8 DEF Report, Closings
  <2>2. IsScript(Closings)
    BY <2>1, ClosingsSettle
  <2>3. /\ scaffold' = [stmts |-> scaffold'.stmts, ddl |-> scaffold'.ddl, listed |-> scaffold'.listed]
        /\ IsScript(scaffold'.stmts) /\ scaffold'.listed \subseteq Tables
    BY <2>1, <2>2 DEF TypeInv
  <2>. QED BY <2>1, <2>3 DEF TypeInv, IsDatabase
<1>9. CASE Teardown
  <2>1. /\ UNCHANGED <<dev, cmd, listed, stage, db, todo, failures, verdict>> /\ pc' \in {"idle", "teardown"}
        /\ pg' \in [Sides -> {"none", "running", "lost", "left", "terminated"}]
    BY <1>9 DEF Teardown, TypeInv, Sides
  <2>. QED BY <2>1 DEF TypeInv, IsDatabase, dev
<1>10. CASE Expire
  BY <1>10 DEF Expire, TypeInv, IsDatabase, dev
<1>11. CASE UNCHANGED vars
  BY <1>11 DEF vars, run, TypeInv, IsDatabase, dev
<1>. QED
  BY <1>1, <1>2, <1>3, <1>4, <1>5, <1>6, <1>7, <1>8, <1>9, <1>10, <1>11 DEF Next, Developer, Command

(****************************************************************************)
(* The invariant holds: commands.                                           *)
(****************************************************************************)
\* What the files and the migrations make changes with them only.
LEMMA SameFilesMakeTheSame ==
  ASSUME UNCHANGED <<ddl, chain, listed>>
  PROVE  Declared' = Declared /\ Migrated' = Migrated
<1>1. Statements(listed)' = Statements(listed)
  BY DEF Statements, Orders
<1>2. Declared' = Declared
  BY <1>1 DEF Declared
<1>3. Migrated' = Migrated
  BY DEF Migrated
<1>. QED BY <1>2, <1>3

\* What a goroutine may do to its database, and what it knows of it then.
StageStep ==
  /\ broken => broken'
  /\ stage'["ddl"] = "done" =>
       \/ stage["ddl"] = "done" /\ db'["ddl"] = db["ddl"]
       \/ Acyclic(ddl, listed) /\ Declared.ok /\ db'["ddl"] = Declared.db
  /\ stage'["ddl"] = "failed" => stage["ddl"] = "failed" \/ broken' \/ ~Acyclic(ddl, listed) \/ ~Declared.ok
  /\ stage'["migrations"] = "done" =>
       \/ stage["migrations"] = "done" /\ db'["migrations"] = db["migrations"]
       \/ Migrated.ok /\ db'["migrations"] = Migrated.db
  /\ stage'["migrations"] = "failed" => stage["migrations"] = "failed" \/ broken' \/ ~Migrated.ok

LEMMA StageStepKeepsCommandInv ==
  ASSUME CommandInv, pc = "bootstrap", UNCHANGED <<dev, pc, listed, todo, failures>>, StageStep
  PROVE  CommandInv'
<1>1. /\ listed # {} /\ \A t \in listed : ddl[t] # Absent
      /\ stage["ddl"] = "done" => Acyclic(ddl, listed) /\ Declared.ok /\ db["ddl"] = Declared.db
      /\ stage["ddl"] = "failed" => broken \/ ~Acyclic(ddl, listed) \/ ~Declared.ok
      /\ stage["migrations"] = "done" => Migrated.ok /\ db["migrations"] = Migrated.db
      /\ stage["migrations"] = "failed" => broken \/ ~Migrated.ok
      /\ todo = listed /\ failures = {}
  BY DEF CommandInv
<1>2. ddl' = ddl /\ chain' = chain /\ listed' = listed /\ pc' = "bootstrap"
  BY DEF dev
<1>3. Declared' = Declared /\ Migrated' = Migrated
  BY <1>2, SameFilesMakeTheSame
<1>. HIDE DEF Declared, Migrated
<1>. QED BY <1>1, <1>2, <1>3 DEF StageStep, CommandInv

LEMMA StartsAreStageSteps ==
  ASSUME TypeInv, NEW s \in Sides, StartPostgres(s) \/ PrepareDatabase(s)
  PROVE  StageStep /\ pc = "bootstrap" /\ UNCHANGED <<dev, pc, listed, todo, failures>>
<1>1. /\ pc = "bootstrap" /\ UNCHANGED <<dev, pc, listed, todo, failures, db>>
      /\ \E x \in {"prepare", "apply", "failed"} :
            stage' = [stage EXCEPT ![s] = x] /\ (x = "failed" => broken')
      /\ broken => broken'
  BY DEF StartPostgres, PrepareDatabase
<1>2. stage \in [Sides -> {"start", "prepare", "apply", "done", "failed"}]
  BY DEF TypeInv
<1>. QED BY <1>1, <1>2 DEF StageStep, Sides

LEMMA AppliesAreStageSteps ==
  ASSUME TypeInv, ApplyDDLFiles \/ ApplyMigrations
  PROVE  StageStep /\ pc = "bootstrap" /\ UNCHANGED <<dev, pc, listed, todo, failures>>
<1>1. /\ stage \in [Sides -> {"start", "prepare", "apply", "done", "failed"}]
      /\ DOMAIN db = Sides
  BY DEF TypeInv
<1>2. CASE ApplyDDLFiles
  <2>1. pc = "bootstrap" /\ UNCHANGED <<dev, pc, listed, todo, failures>> /\ (broken => broken')
    BY <1>2 DEF ApplyDDLFiles
  <2>2. /\ stage'["migrations"] = stage["migrations"] /\ db'["migrations"] = db["migrations"]
        /\ stage'["ddl"] = "failed" => broken' \/ Orders(listed) = {} \/ ~Declared.ok
        /\ stage'["ddl"] = "done" => Orders(listed) # {} /\ Declared.ok /\ db'["ddl"] = Declared.db
    <3>1. CASE Breaks("ddl")
      BY <1>1, <3>1 DEF Breaks, Sides
    <3>2. CASE ~Breaks("ddl") /\ Orders(listed) = {}
      <4>1. stage' = [stage EXCEPT !["ddl"] = "failed"] /\ db' = [db EXCEPT !["ddl"] = Nothing]
        BY <1>2, <3>2 DEF ApplyDDLFiles, Breaks
      <4>. QED BY <1>1, <3>2, <4>1 DEF Sides
    <3>3. CASE ~Breaks("ddl") /\ Orders(listed) # {}
      <4>1. /\ stage' = [stage EXCEPT !["ddl"] = IF Declared.ok THEN "done" ELSE "failed"]
            /\ db' = [db EXCEPT !["ddl"] = Declared.db]
        BY <1>2, <3>3 DEF ApplyDDLFiles, Declared, Breaks
      <4>. HIDE DEF Declared
      <4>. QED BY <1>1, <3>3, <4>1 DEF Sides
    <3>. QED BY <3>1, <3>2, <3>3
  <2>. HIDE DEF Declared
  <2>. QED BY <2>1, <2>2, OrdersOfDDL DEF StageStep
<1>3. CASE ApplyMigrations
  <2>1. /\ pc = "bootstrap" /\ UNCHANGED <<dev, pc, listed, todo, failures>> /\ (broken => broken')
        /\ \/ Breaks("migrations")
           \/ /\ stage' = [stage EXCEPT !["migrations"] = IF Migrated.ok THEN "done" ELSE "failed"]
              /\ db' = [db EXCEPT !["migrations"] = Migrated.db]
    BY <1>3 DEF ApplyMigrations, Migrated, Breaks
  <2>. HIDE DEF Migrated
  <2>2. CASE Breaks("migrations")
    BY <1>1, <2>1, <2>2 DEF StageStep, Sides, Breaks
  <2>. QED BY <1>1, <2>1, <2>2 DEF StageStep, Sides
<1>. QED BY <1>2, <1>3

\* The parts of the invariant that say what is known of the databases.
Known ==
  /\ listed # {} /\ \A t \in listed : ddl[t] # Absent
  /\ stage["ddl"] = "done" => Acyclic(ddl, listed) /\ Declared.ok /\ db["ddl"] = Declared.db
  /\ stage["ddl"] = "failed" => broken \/ ~Acyclic(ddl, listed) \/ ~Declared.ok
  /\ stage["migrations"] = "done" => Migrated.ok /\ db["migrations"] = Migrated.db
  /\ stage["migrations"] = "failed" => broken \/ ~Migrated.ok

\* It stays known while the databases are compared and torn down.
LEMMA WhatIsKnownStays ==
  ASSUME CommandInv, pc # "idle", UNCHANGED <<ddl, chain, listed, stage, db>>, broken => broken'
  PROVE  Known'
<1>1. Known
  BY DEF CommandInv, Known
<1>2. Declared' = Declared /\ Migrated' = Migrated
  BY SameFilesMakeTheSame
<1>. HIDE DEF Declared, Migrated
<1>. QED BY <1>1, <1>2 DEF Known

\* No table differs otherwise than it did.
LEMMA SameTablesDiffer ==
  ASSUME UNCHANGED <<cmd, db>>, NEW t
  PROVE  Differs(t)' <=> Differs(t)
BY DEF Differs, Snapshot

LEMMA AwaitBothKeepsCommandInv ==
  ASSUME TypeInv, CommandInv, AwaitBoth
  PROVE  CommandInv'
<1>1. /\ pc = "bootstrap" /\ UNCHANGED <<dev, cmd, listed, stage, pg, db, expired, todo, failures, broken>>
      /\ \A s \in Sides : stage[s] \in {"done", "failed"}
  BY DEF AwaitBoth, Ended
<1>2. Known'
  BY <1>1, WhatIsKnownStays DEF dev
<1>3. CASE \E s \in Sides : stage[s] = "failed"
  <2>1. verdict' = "error" /\ pc' = "teardown" /\ \E s \in Sides : stage'[s] = "failed"
    BY <1>1, <1>3 DEF AwaitBoth
  <2>. QED BY <1>2, <2>1 DEF CommandInv, Known
<1>4. CASE ~\E s \in Sides : stage[s] = "failed"
  <2>1. /\ pc' = "compare" /\ \A s \in Sides : stage'[s] = "done"
        /\ listed' \ todo' = {} /\ failures' = {}
    BY <1>1, <1>4 DEF AwaitBoth, CommandInv
  <2>2. failures' = {t \in listed' \ todo' : Differs(t)'}
    BY <2>1
  <2>. QED BY <1>2, <2>1, <2>2 DEF CommandInv, Known
<1>. QED BY <1>3, <1>4

LEMMA CompareKeepsCommandInv ==
  ASSUME TypeInv, CommandInv, CompareTable
  PROVE  CommandInv'
<1>1. /\ pc = "compare" /\ UNCHANGED <<dev, cmd, listed, stage, pg, db, expired>> /\ (broken => broken')
      /\ \A s \in Sides : stage[s] = "done"
      /\ failures = {t \in listed \ todo : Differs(t)}
  BY DEF CompareTable, CommandInv
<1>2. Known'
  BY <1>1, WhatIsKnownStays DEF dev
<1>3. \A t : Differs(t)' <=> Differs(t)
  BY <1>1, SameTablesDiffer
<1>4. CASE pc' = "teardown"
  <2>1. pc' = "teardown" /\ verdict' = "error" /\ broken'
    BY <1>1, <1>4 DEF CompareTable
  <2>. QED BY <1>2, <2>1 DEF CommandInv, Known
<1>5. CASE pc' # "teardown"
  <2> DEFINE u == First(todo)
  <2>1. /\ pc' = "compare" /\ todo' = todo \ {u}
        /\ failures' = failures \cup (IF Differs(u) THEN {u} ELSE {})
    BY <1>1, <1>5 DEF CompareTable
  <2>2. u \in todo /\ todo \subseteq listed
    BY FirstIsLeft DEF CompareTable, TypeInv
  <2>. HIDE DEF u
  <2>3. failures' = {t \in listed \ todo' : Differs(t)}
    BY <1>1, <2>1, <2>2
  <2>4. failures' = {t \in listed' \ todo' : Differs(t)'}
    BY <1>1, <1>3, <2>3
  <2>. QED BY <1>1, <1>2, <2>1, <2>4 DEF CommandInv, Known
<1>. QED BY <1>4, <1>5

LEMMA ReportKeepsCommandInv ==
  ASSUME TypeInv, CommandInv, Report
  PROVE  CommandInv'
<1>1. /\ pc = "compare" /\ pc' = "teardown" /\ todo = {}
      /\ UNCHANGED <<ddl, chain, cmd, listed, stage, pg, db, expired, todo, failures, broken>>
      /\ \A s \in Sides : stage[s] = "done"
      /\ failures = {t \in listed : Differs(t)}
  BY DEF Report, CommandInv
<1>2. Known'
  BY <1>1, WhatIsKnownStays
<1>3. \A t : Differs(t)' <=> Differs(t)
  BY <1>1, SameTablesDiffer
<1>4. cmd \in {"check", "diff"} /\ failures \subseteq listed
  BY DEF TypeInv
<1>5. /\ verdict' = "ok" => cmd' = "check" /\ \A t \in listed' : ~Differs(t)'
      /\ verdict' = "drift" => \E t \in listed' : Differs(t)'
      /\ verdict' = "scaffold" => cmd' = "diff"
      /\ verdict' \in {"ok", "drift", "scaffold"}
  <2>1. CASE cmd = "check"
    <3>1. verdict' = IF failures = {} THEN "ok" ELSE "drift"
      BY <2>1 DEF Report
    <3>2. failures = {} => \A t \in listed' : ~Differs(t)'
      BY <1>1, <1>3
    <3>3. failures # {} => \E t \in listed' : Differs(t)'
      BY <1>1, <1>3, <1>4
    <3>. QED BY <1>1, <2>1, <3>1, <3>2, <3>3
  <2>2. CASE cmd = "diff"
    <3>1. verdict' = "scaffold"
      BY <2>2 DEF Report
    <3>. QED BY <1>1, <2>2, <3>1
  <2>. QED BY <1>4, <2>1, <2>2
<1>. QED BY <1>1, <1>2, <1>5 DEF CommandInv, Known

LEMMA TeardownKeepsCommandInv ==
  ASSUME TypeInv, CommandInv, Teardown
  PROVE  CommandInv'
<1>1. /\ pc = "teardown" /\ pc' \in {"idle", "teardown"}
      /\ UNCHANGED <<dev, cmd, listed, stage, db, expired, todo, failures, verdict, broken>>
  BY DEF Teardown
<1>2. Known'
  BY <1>1, WhatIsKnownStays DEF dev
<1>3. \A t : Differs(t)' <=> Differs(t)
  BY <1>1, SameTablesDiffer
<1>4. /\ verdict # "none" /\ (verdict # "error" => \A s \in Sides : stage[s] = "done")
      /\ verdict = "ok" => cmd = "check" /\ \A t \in listed : ~Differs(t)
      /\ verdict = "drift" => \E t \in listed : Differs(t)
      /\ verdict = "scaffold" => cmd = "diff"
      /\ verdict = "error" => broken \/ \E s \in Sides : stage[s] = "failed"
  BY <1>1 DEF CommandInv
<1>5. CASE pc' = "idle"
  BY <1>5 DEF CommandInv
<1>6. CASE pc' = "teardown"
  <2>1. /\ verdict' = "ok" => cmd' = "check" /\ \A t \in listed' : ~Differs(t)'
        /\ verdict' = "drift" => \E t \in listed' : Differs(t)'
    BY <1>1, <1>3, <1>4
  <2>. QED BY <1>1, <1>2, <1>4, <1>6, <2>1 DEF CommandInv, Known
<1>. QED BY <1>1, <1>5, <1>6

LEMMA ExpireKeepsCommandInv ==
  ASSUME TypeInv, CommandInv, Expire
  PROVE  CommandInv'
<1>1. /\ pc # "idle" /\ pc' = pc
      /\ UNCHANGED <<dev, cmd, listed, stage, pg, db, todo, failures, verdict, broken>>
  BY DEF Expire
<1>2. Known'
  BY <1>1, WhatIsKnownStays DEF dev
<1>3. \A t : Differs(t)' <=> Differs(t)
  BY <1>1, SameTablesDiffer
<1>4. /\ pc = "compare" \/ (pc = "teardown" /\ verdict # "error") => \A s \in Sides : stage[s] = "done"
      /\ pc = "bootstrap" => todo = listed /\ failures = {}
      /\ pc = "teardown" =>
           /\ verdict # "none" /\ (verdict = "scaffold" => cmd = "diff")
           /\ verdict = "ok" => cmd = "check"
           /\ verdict = "error" => broken \/ \E s \in Sides : stage[s] = "failed"
  BY <1>1 DEF CommandInv
<1>5. /\ pc = "compare" => failures = {t \in listed \ todo : Differs(t)}
      /\ pc = "teardown" /\ verdict = "ok" => \A t \in listed : ~Differs(t)
      /\ pc = "teardown" /\ verdict = "drift" => \E t \in listed : Differs(t)
  BY <1>1 DEF CommandInv
<1>6. /\ pc' = "compare" => failures' = {t \in listed' \ todo' : Differs(t)'}
      /\ pc' = "teardown" /\ verdict' = "ok" => \A t \in listed' : ~Differs(t)'
      /\ pc' = "teardown" /\ verdict' = "drift" => \E t \in listed' : Differs(t)'
  BY <1>1, <1>3, <1>5
<1>. QED BY <1>1, <1>2, <1>4, <1>6 DEF CommandInv, Known

LEMMA BeginKeepsCommandInv ==
  ASSUME NEW c, NEW scope, RunWithoutDatabases(c, scope) \/ RunWithDatabases(c, scope)
  PROVE  CommandInv'
<1>1. CASE RunWithoutDatabases(c, scope)
  BY <1>1 DEF RunWithoutDatabases, CommandInv
<1>2. CASE RunWithDatabases(c, scope)
  <2>1. /\ pc' = "bootstrap" /\ listed' = Discover(scope) /\ listed' # {} /\ ddl' = ddl
        /\ stage' = [s \in Sides |-> "start"] /\ todo' = listed' /\ failures' = {}
    BY <1>2 DEF RunWithDatabases, Begin, dev
  <2>2. \A t \in listed' : ddl'[t] # Absent
    BY <2>1, DiscoverFinds
  <2>3. stage'["ddl"] = "start" /\ stage'["migrations"] = "start"
    BY <2>1 DEF Sides
  <2>. QED BY <2>1, <2>2, <2>3 DEF CommandInv
<1>. QED BY <1>1, <1>2

\* What a command knows, and its verdict, hold through every step.
LEMMA NextKeepsCommandInv ==
  ASSUME TypeInv, CommandInv, [Next]_vars
  PROVE  CommandInv'
<1>1. CASE \E t \in Tables : EditMessage(t)
  BY <1>1 DEF EditMessage, CommandInv
<1>2. CASE WriteMigration
  BY <1>2 DEF WriteMigration, CommandInv
<1>3. CASE \E c \in {"check", "diff"}, scope \in Scopes :
             RunWithoutDatabases(c, scope) \/ RunWithDatabases(c, scope)
  BY <1>3, BeginKeepsCommandInv
<1>4. CASE \E s \in Sides : StartPostgres(s) \/ PrepareDatabase(s)
  BY <1>4, StartsAreStageSteps, StageStepKeepsCommandInv
<1>5. CASE ApplyDDLFiles \/ ApplyMigrations
  BY <1>5, AppliesAreStageSteps, StageStepKeepsCommandInv
<1>6. CASE AwaitBoth
  BY <1>6, AwaitBothKeepsCommandInv
<1>7. CASE CompareTable
  BY <1>7, CompareKeepsCommandInv
<1>8. CASE Report
  BY <1>8, ReportKeepsCommandInv
<1>9. CASE Teardown
  BY <1>9, TeardownKeepsCommandInv
<1>10. CASE Expire
  BY <1>10, ExpireKeepsCommandInv
<1>11. CASE UNCHANGED vars
  <2>1. UNCHANGED <<ddl, chain, cmd, pc, listed, stage, db, todo, failures, verdict, broken>>
    BY <1>11 DEF vars, dev, run
  <2>2. Declared' = Declared /\ Migrated' = Migrated /\ \A t : Differs(t)' <=> Differs(t)
    BY <2>1, SameFilesMakeTheSame, SameTablesDiffer
  <2>. HIDE DEF Declared, Migrated, Differs
  <2>. QED BY <2>1, <2>2 DEF CommandInv
<1>. QED
  BY <1>1, <1>2, <1>3, <1>4, <1>5, <1>6, <1>7, <1>8, <1>9, <1>10, <1>11 DEF Next, Developer, Command

(****************************************************************************)
(* The invariant holds: scaffolds.                                          *)
(****************************************************************************)
LEMMA WriteMigrationKeepsScaffoldInv ==
  ASSUME TypeInv, ScaffoldInv, WriteMigration
  PROVE  ScaffoldInv'
<1>1. scaffold'.stmts = <<>> /\ ddl' = ddl
  <2>1. /\ scaffold = [stmts |-> scaffold.stmts, ddl |-> scaffold.ddl, listed |-> scaffold.listed]
        /\ scaffold' = [scaffold EXCEPT !.stmts = <<>>] /\ ddl' = ddl
    BY DEF WriteMigration, TypeInv
  <2>. QED BY <2>1
<1>2. ASSUME settled' # {}
      PROVE  Settles(FlattenSeq(chain'), ddl', settled')
  <2>1. /\ chain' = Append(chain, scaffold.stmts) /\ settled' = scaffold.listed /\ scaffold.ddl = ddl
        /\ scaffold.stmts # <<>> /\ Len(chain) < MaxMigrations
    BY <1>2 DEF WriteMigration
  <2>2. FlattenSeq(chain') = FlattenSeq(chain) \o scaffold.stmts
    <3>1. IsScript(scaffold.stmts)
      BY DEF TypeInv
    <3>. QED BY <2>1, <3>1, ChainGrows
  <2>3. Settles(FlattenSeq(chain) \o scaffold.stmts, scaffold.ddl, scaffold.listed)
    BY <2>1 DEF ScaffoldInv
  <2>. QED BY <1>1, <2>1, <2>2, <2>3
<1>. QED BY <1>1, <1>2 DEF ScaffoldInv

\* The DDL files, applied to nothing, make what they say (emitInitialFromDDL).
LEMMA FirstMigrationSettles ==
  ASSUME NEW ts, ts \subseteq Tables, \A t \in ts : ddl[t] \in Shapes[t], Acyclic(ddl, ts)
  PROVE  Settles(FlattenSeq(<<>>) \o Statements(ts), ddl, ts)
<1>1. IsScript(Statements(ts))
  BY StatementsCover DEF Covers
<1>2. FlattenSeq(<<>>) \o Statements(ts) = Statements(ts)
  BY <1>1, EmptyScript, ConcatEmptySeq DEF IsScript, IsSeq
<1>3. Applicable(ddl, ts) =>
        /\ Run(Nothing, Role, Statements(ts)).ok
        /\ \A t \in ts : Run(Nothing, Role, Statements(ts)).db[t] = ddl[t]
  BY DDLFilesMake
<1>. QED BY <1>2, <1>3 DEF Settles

LEMMA BeginKeepsScaffoldInv ==
  ASSUME TypeInv, ScaffoldInv, NEW c, NEW scope,
         RunWithoutDatabases(c, scope) \/ RunWithDatabases(c, scope)
  PROVE  ScaffoldInv'
<1>1. CASE UNCHANGED dev
  BY <1>1 DEF ScaffoldInv, dev
<1>2. CASE ~UNCHANGED dev
  <2>1. RunWithoutDatabases(c, scope)
    BY <1>2 DEF RunWithDatabases
  <2>2. /\ UNCHANGED <<ddl, chain, edits, settled>> /\ chain = <<>>
        /\ scaffold' = [stmts |-> Statements(listed'), ddl |-> ddl, listed |-> listed']
        /\ listed' \subseteq Tables /\ Acyclic(ddl, listed')
        /\ \A t \in listed' : ddl[t] # Absent /\ ddl[t] \in Shapes[t]
    BY <1>2, <2>1, FirstScaffold
  <2> DEFINE ts == listed'
             stmts == Statements(ts)
  <2>3. Settles(FlattenSeq(<<>>) \o stmts, ddl, ts)
    BY <2>2, FirstMigrationSettles
  <2>4. scaffold'.stmts = stmts /\ scaffold'.ddl = ddl /\ scaffold'.listed = ts
    BY <2>2
  <2>. HIDE DEF ts, stmts
  <2>. QED BY <2>2, <2>3, <2>4 DEF ScaffoldInv
<1>. QED BY <1>1, <1>2

LEMMA ReportKeepsScaffoldInv ==
  ASSUME TypeInv, CommandInv, ScaffoldInv, Report
  PROVE  ScaffoldInv'
<1>1. /\ pc = "compare" /\ todo = {} /\ UNCHANGED <<ddl, chain, settled>>
      /\ scaffold' = scaffold \/ scaffold' = [stmts |-> Closings, ddl |-> ddl, listed |-> listed]
  BY DEF Report, Closings
<1>2. Settles(FlattenSeq(chain) \o Closings, ddl, listed)
  BY <1>1, ClosingsSettle
<1>3. CASE scaffold' = scaffold
  BY <1>1, <1>3 DEF ScaffoldInv
<1>4. CASE scaffold' = [stmts |-> Closings, ddl |-> ddl, listed |-> listed]
  <2>1. scaffold'.stmts = Closings /\ scaffold'.ddl = ddl /\ scaffold'.listed = listed
    BY <1>4
  <2>. QED BY <1>1, <1>2, <2>1 DEF ScaffoldInv
<1>. QED BY <1>1, <1>3, <1>4

\* What a scaffold asks for stays what is missing, until a message changes.
LEMMA NextKeepsScaffoldInv ==
  ASSUME TypeInv, CommandInv, ScaffoldInv, [Next]_vars
  PROVE  ScaffoldInv'
<1>1. CASE \E t \in Tables : EditMessage(t)
  BY <1>1 DEF EditMessage, ScaffoldInv
<1>2. CASE WriteMigration
  BY <1>2, WriteMigrationKeepsScaffoldInv
<1>3. CASE \E c \in {"check", "diff"}, scope \in Scopes :
             RunWithoutDatabases(c, scope) \/ RunWithDatabases(c, scope)
  BY <1>3, BeginKeepsScaffoldInv
<1>4. CASE Report
  BY <1>4, ReportKeepsScaffoldInv
<1>5. CASE UNCHANGED dev
  BY <1>5 DEF ScaffoldInv, dev
<1>6. CASE \/ \E s \in Sides : StartPostgres(s) \/ PrepareDatabase(s)
           \/ ApplyDDLFiles \/ ApplyMigrations \/ AwaitBoth \/ CompareTable \/ Teardown \/ Expire
  <2>1. UNCHANGED dev
    BY <1>6 DEF StartPostgres, PrepareDatabase, ApplyDDLFiles, ApplyMigrations, AwaitBoth,
                CompareTable, Teardown, Expire
  <2>. QED BY <1>5, <2>1
<1>7. CASE UNCHANGED vars
  BY <1>5, <1>7 DEF vars
<1>. QED BY <1>1, <1>2, <1>3, <1>4, <1>6, <1>7 DEF Next, Developer, Command

(****************************************************************************)
(* What follows.                                                            *)
(****************************************************************************)
\* The inductive invariant of the drift commands and their developer.
THEOREM DriftInvariant == Spec => []DriftInv
<1>1. Init => DriftInv
  <2>. SUFFICES ASSUME Init PROVE DriftInv
    OBVIOUS
  <2>1. TypeInv
    BY InitTypeInv
  <2>2. CommandInv
    BY DEF Init, CommandInv
  <2>3. ScaffoldInv
    <3>1. scaffold.stmts = <<>> /\ settled = {}
      BY DEF Init
    <3>. QED BY <3>1 DEF ScaffoldInv
  <2>. QED BY <2>1, <2>2, <2>3 DEF DriftInv
<1>2. DriftInv /\ [Next]_vars => DriftInv'
  BY NextKeepsTypeInv, NextKeepsCommandInv, NextKeepsScaffoldInv DEF DriftInv
<1>. QED BY <1>1, <1>2, PTL DEF Spec

\* Every variable has its type, and only listed tables drift.
THEOREM DriftIsTyped == Spec => []DriftTypeOK
<1>1. DriftInv => DriftTypeOK
  <2>. SUFFICES ASSUME TypeInv PROVE DriftTypeOK
    BY DEF DriftInv
  <2>1. ddl \in [Tables -> (UNION {Shapes[t] : t \in Tables}) \cup {Absent}]
    <3>1. \A t \in Tables : ddl[t] \in (UNION {Shapes[x] : x \in Tables}) \cup {Absent}
      BY DEF TypeInv
    <3>. QED BY <3>1 DEF TypeInv
  <2>. QED BY <2>1 DEF TypeInv, DriftTypeOK
<1>. QED BY <1>1, DriftInvariant, PTL

\* If what snapshotTable does not read never is all that changes, check says ok
\* only of tables the migrations make as their DDL files say (runCheck).
THEOREM NoDriftIsMissed ==
  ASSUME ReadInFull
  PROVE  Spec => []OkMeansNoDrift
<1>1. DriftInv => OkMeansNoDrift
  <2>. SUFFICES ASSUME DriftInv, pc = "teardown", verdict = "ok", NEW t \in listed
                PROVE  Migrated.db[t] = ddl[t]
    BY DEF OkMeansNoDrift, Migrated
  <2>1. TypeInv /\ CommandInv
    BY DEF DriftInv
  <2>2. /\ IsDatabase(Migrated.db) /\ t \in Tables /\ ddl[t] \in Kin(t) /\ ddl[t] \in Table /\ ddl[t].columns # {}
        /\ Differs(t) <=> SnapshotTable(Migrated.db[t]) # SnapshotTable(ddl[t])
    BY <2>1, WhatIsCompared
  <2>3. SnapshotTable(Migrated.db[t]) = SnapshotTable(ddl[t])
    BY <2>1, <2>2 DEF CommandInv
  <2>4. Migrated.db[t] \in Kin(t)
    <3>1. Migrated.db[t] # Absent
      BY <2>2, <2>3, SnapshotShows
    <3>. QED BY <2>2, <3>1 DEF IsDatabase
  <2>. HIDE DEF Migrated
  <2>. QED BY <2>2, <2>3, <2>4, SnapshotDetermines
<1>. QED BY <1>1, DriftInvariant, PTL

\* Whoever does what diff asks for passes the next check of the same tables, if
\* the files and the migrations can be applied and nothing outside breaks it
\* (emitInitialFromDDL, emitLLMBrief, runCheck).
THEOREM ScaffoldsConverge == Spec => []ScaffoldConverges
<1>1. DriftInv => ScaffoldConverges
  <2>. SUFFICES ASSUME DriftInv, pc = "teardown", cmd = "check", listed \subseteq settled, ~broken,
                       Applicable(ddl, listed), Applicable(ddl, settled)
                PROVE  verdict = "ok"
    BY DEF ScaffoldConverges
  <2>1. TypeInv /\ CommandInv /\ ScaffoldInv
    BY DEF DriftInv
  <2>2. listed # {} /\ settled \subseteq Tables /\ \A t \in listed : t \in Tables /\ ddl[t] \in Shapes[t]
    BY <2>1 DEF CommandInv, TypeInv
  <2>3. Settles(FlattenSeq(chain), ddl, settled)
    BY <2>1, <2>2 DEF ScaffoldInv
  <2>4. /\ Acyclic(ddl, settled) /\ Migrated.ok
        /\ \A t \in settled : SnapshotTable(Migrated.db[t]) = SnapshotTable(ddl[t])
    BY <2>3 DEF Settles, Migrated
  <2>5. Acyclic(ddl, listed)
    BY <2>2, <2>4, SomeInOrder
  <2>6. Declared.ok
    BY <2>2, <2>5, DDLFilesMake DEF Declared
  <2>7. \A s \in Sides : stage[s] # "failed"
    <3>. HIDE DEF Declared, Migrated
    <3>. QED BY <2>1, <2>4, <2>5, <2>6 DEF CommandInv, Sides
  <2>8. verdict # "error"
    BY <2>1, <2>7 DEF CommandInv
  <2>9. verdict # "drift"
    BY <2>1, <2>4, <2>8, WhatIsCompared DEF CommandInv
  <2>. QED BY <2>1, <2>8, <2>9 DEF CommandInv, TypeInv
<1>. QED BY <1>1, DriftInvariant, PTL
===============================================================================
