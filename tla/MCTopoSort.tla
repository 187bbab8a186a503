------------------------------ MODULE MCTopoSort ------------------------------
(* Small instances of TopoSort. *)
EXTENDS TopoSort

\* Three files with their own tables; the last may create the first one's table
\* again (a file left over from a renamed message).  "x" is nobody's table.
MCTables == {"a", "b", "c", "x"}
Refs == SUBSET MCTables
MCInputFiles ==
    { << [creates |-> {"a"}, refs |-> r1], [creates |-> {"b"}, refs |-> r2],
         [creates |-> c3, refs |-> r3] >> :
        r1, r2, r3 \in Refs, c3 \in { {"c"}, {"a", "c"} } }
===============================================================================
