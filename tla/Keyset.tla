-------------------------------- MODULE Keyset --------------------------------
(***************************************************************************)
(* Keyset pagination, the pure part: the ORDER BY a list query runs under   *)
(* and the WHERE condition that skips the rows already returned             *)
(* (pkg/aip/order.go, pkg/aip/jet/execute.go).                              *)
(*                                                                         *)
(* An order is a sequence of [path, dir] records.  A row is a function      *)
(* from column names to integers: the columns of an orderable field are     *)
(* never NULL and their types are totally ordered, so integers stand for    *)
(* the values of every such type.  A key is the sequence of the values a    *)
(* row has in the columns of an order.                                      *)
(***************************************************************************)
EXTENDS Integers, Sequences

Asc  == "asc"
Desc == "desc"

\* The paths an order mentions.
PathsOf(order) == { order[i].path : i \in DOMAIN order }

\* The values `row` has in the columns of `order`: the cursor of that row.
Key(order, row) == [i \in DOMAIN order |-> row[order[i].path]]

\* k and l agree on every position before i.
AgreeBefore(k, l, i) == \A j \in 1..(i - 1) : k[j] = l[j]

\* `col > val` ascending, `col < val` descending: x lies after v.
DirectionExpr(dir, x, v) == IF dir = Desc THEN x < v ELSE x > v

---------------------------------------------------------------------------
\* The order PostgreSQL sorts by under the ORDER BY clauses of `order`: the
\* first column that differs decides, in that column's own direction.
SortsBefore(order, k, l) ==
    \E i \in DOMAIN order :
        /\ AgreeBefore(k, l, i)
        /\ DirectionExpr(order[i].dir, l[i], k[i])

IsUniformDirection(order) ==
    \A i, j \in DOMAIN order : order[i].dir = order[j].dir

\* The positions where two keys of `order` differ.
Differences(order, k, l) == { i \in DOMAIN order : k[i] # l[i] }

\* ROW(cols) > ROW(vals), or < when the first field is descending: SQL
\* compares the first pair of columns that differ, all in one direction.
TupleComparison(order, vals, k) ==
    LET diff  == Differences(order, k, vals)
        first == CHOOSE i \in diff : \A j \in diff : i <= j
    IN  diff # {} /\ DirectionExpr(order[1].dir, k[first], vals[first])

\* The OR-chain: for some position, equality before it and strictly after
\* the cursor at it.
LexicographicFallback(order, vals, k) ==
    \E i \in DOMAIN order :
        /\ \A j \in 1..(i - 1) : k[j] = vals[j]
        /\ DirectionExpr(order[i].dir, k[i], vals[i])

\* Mutant: the row comparison whatever the directions.
KeysetConditionAlwaysTuple(order, vals, k) ==
    vals = <<>> \/ TupleComparison(order, vals, k)

\* Mutant: the last field of the OR-chain is not compared strictly.
KeysetConditionNotStrict(order, vals, k) ==
    \/ vals = <<>>
    \/ LexicographicFallback(order, vals, k)
    \/ k = vals

\* No cursor puts no condition on the rows.
KeysetCondition(order, vals, k) ==
    \/ vals = <<>>
    \/ /\ vals # <<>>
       /\ IF IsUniformDirection(order)
          THEN TupleComparison(order, vals, k)
          ELSE LexicographicFallback(order, vals, k)
===============================================================================
