------------------------------ MODULE TableShape ------------------------------
(****************************************************************************)
(* The shape of a table, what snapshotTable (check.go) reads of it, and the *)
(* two comparisons made of snapshots: cmp.Diff of the check command and     *)
(* computeTableDelta (migration_scaffold.go) of the diff command.           *)
(*                                                                          *)
(* A table is a record of sets of named things, a key, a comment, whether   *)
(* it has row-level security and how it is partitioned.  Names, types and   *)
(* bodies are opaque.                                                       *)
(****************************************************************************)
EXTENDS Integers, Sequences, FiniteSets, SequencesExt

CONSTANT Absent  \* no such table

(* The default is the sequence of its parts between `::`, generated the     *)
(* expression or "", partition the PARTITION BY clause or "".               *)
Column == [name : STRING, type : STRING, default : Seq(STRING), generated : STRING]
Check == [name : STRING, body : STRING]
Index == [name : STRING, columns : Seq(STRING)]
Policy == [name : STRING, role : STRING]
ForeignKey == [name : STRING, columns : Seq(STRING), target : STRING, validated : BOOLEAN]

Table == [columns : SUBSET Column, key : Seq(STRING), checks : SUBSET Check,
          indexes : SUBSET Index, rls : BOOLEAN, policies : SUBSET Policy,
          comment : STRING, fks : SUBSET ForeignKey, partition : STRING]

ASSUME AbsentAssumption == Absent \notin Table

(* normaliseDefault: what stands before the first `::`. *)
NormaliseDefault(d) == IF d = <<>> THEN "" ELSE Head(d)

(* fetchColumns: a generated column has no column_default, and its          *)
(* expression is not asked for.                                             *)
FetchColumns(table) ==
  {[name |-> c.name, type |-> c.type, default |-> NormaliseDefault(c.default)] : c \in table.columns}

(* Some btree index starts with the columns. *)
HasBackingIndex(table, columns) ==
  \E cols \in {i.columns : i \in table.indexes} \cup {table.key} : IsPrefix(columns, cols)

\* Mutant: whether a constraint is validated is not looked at.
FetchForeignKeysByName(table) ==
  {[name |-> f.name, body |-> <<f.columns, f.target>>, validated |-> TRUE,
    backed |-> HasBackingIndex(table, f.columns)] : f \in table.fks}

FetchForeignKeys(table) ==
  {[name |-> f.name, body |-> <<f.columns, f.target>>, validated |-> f.validated,
    backed |-> HasBackingIndex(table, f.columns)] : f \in table.fks}

NoTable == [columns |-> {}, key |-> <<>>, checks |-> {}, indexes |-> {}, rls |-> FALSE,
            policies |-> {}, comment |-> "", fks |-> {}]

SnapshotTable(table) ==
  IF table = Absent THEN NoTable
  ELSE [columns |-> FetchColumns(table), key |-> table.key, checks |-> table.checks,
        indexes |-> table.indexes, rls |-> table.rls, policies |-> table.policies,
        comment |-> table.comment, fks |-> FetchForeignKeys(table)]

(****************************************************************************)
(* computeTableDelta: a line per named thing that differs.                  *)
(****************************************************************************)
Names(things) == {x.name : x \in things}

Named(things, n) == {x \in things : x.name = n}

\* Mutant: a thing on both sides is taken for the same.
DiffNamedOnly(kind, current, target) ==
  {[kind |-> kind, name |-> n] : n \in (Names(current) \ Names(target)) \cup (Names(target) \ Names(current))}

DiffNamed(kind, current, target) ==
  {[kind |-> kind, name |-> n] : n \in
     {m \in Names(current) \cup Names(target) : Named(current, m) # Named(target, m)}}

Kinds == {"columns", "checks", "indexes", "policies", "fks"}

Whole == {"key", "rls", "comment"}

ComputeTableDelta(current, target) ==
  (UNION {DiffNamed(k, current[k], target[k]) : k \in Kinds})
    \cup {[kind |-> k, name |-> ""] : k \in {w \in Whole : current[w] # target[w]}}

(* The table after a migration that does what the lines say, no more. *)
Close(current, target, lines) ==
  [k \in DOMAIN current |->
     LET named == {l.name : l \in {m \in lines : m.kind = k}}
     IN IF k \in Kinds
        THEN {x \in current[k] : x.name \notin named} \cup {x \in target[k] : x.name \in named}
        ELSE IF named # {} THEN target[k] ELSE current[k]]

(****************************************************************************)
(* PostgreSQL.  A statement leaves a table in a shape; that fails if the    *)
(* shape names a table or a role there is none of.                          *)
(****************************************************************************)
Targets(table) == {f.target : f \in table.fks}

Accepts(db, roles, stmt) ==
  /\ Targets(stmt.shape) \subseteq {t \in DOMAIN db : db[t] # Absent} \cup {stmt.table}
  /\ {p.role : p \in stmt.shape.policies} \subseteq roles

Executed(r, roles, stmt) ==
  IF r.ok /\ Accepts(r.db, roles, stmt)
  THEN [ok |-> TRUE, db |-> [r.db EXCEPT ![stmt.table] = stmt.shape]]
  ELSE [ok |-> FALSE, db |-> r.db]

(* The database after the statements before the first that fails. *)
Run(db, roles, stmts) ==
  LET result[k \in 0..Len(stmts)] ==
        IF k = 0 THEN [ok |-> TRUE, db |-> db]
        ELSE Executed(result[k - 1], roles, stmts[k])
  IN result[Len(stmts)]
=============================================================================
