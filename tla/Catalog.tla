------------------------------- MODULE Catalog -------------------------------
(***************************************************************************)
(* What PostgreSQL accepts of a DDL file (external; modelled as the code uses *)
(* it).  The catalog of a database is the set of the statements that made it. *)
(* A file is sent as one query: it is applied as a whole or not at all.       *)
(***************************************************************************)
EXTENDS Plans

TablesOf(db) == { s \in db : s.op = "table" }

\* A primary key is an index too.
PrimaryKeyIndex(t) ==
    [op |-> "index", name |-> t.name \o <<"pkey">>, table |-> t.name,
     columns |-> t.primaryKey, unique |-> TRUE, where |-> FALSE]
IndexesOf(db) ==
    { s \in db : s.op = "index" } \cup { PrimaryKeyIndex(t) : t \in TablesOf(db) }

\* Tables and indexes share one name space.
RelationNames(db) == { t.name : t \in TablesOf(db) } \cup { x.name : x \in IndexesOf(db) }

\* The columns are those of a unique index, in any order, that is not partial.
UniqueOn(db, table, columns) ==
    \E x \in IndexesOf(db) :
        x.table = table /\ x.unique /\ ~x.where /\ Range(x.columns) = columns

\* Foreign keys are checked when the table and its key are there.
AcceptsTable(db, t) ==
    /\ t.name \notin RelationNames(db)
    /\ \A fk \in t.foreignKeys : UniqueOn(db \cup {t}, fk.table, Range(fk.target))

\* A unique index of a partitioned table covers the partition columns.
AcceptsIndex(db, x) ==
    /\ x.name \notin RelationNames(db)
    /\ \E t \in TablesOf(db) :
          /\ t.name = x.table
          /\ Range(x.columns) \subseteq t.columns
          /\ x.unique => t.partition \subseteq Range(x.columns)

AcceptsFile(db, file) ==
    \A k \in DOMAIN file :
        LET before == db \cup { file[l] : l \in 1..(k - 1) } IN
        IF file[k].op = "table" THEN AcceptsTable(before, file[k])
                                ELSE AcceptsIndex(before, file[k])
===============================================================================
