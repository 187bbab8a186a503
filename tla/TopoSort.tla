------------------------------- MODULE TopoSort -------------------------------
(***************************************************************************)
(* The order DDL files are applied in (cmd/protoc-gen-go-jet/apply_ddl.go): *)
(* Kahn's algorithm over the files, an edge from each file to those that     *)
(* reference its tables, ties broken by input order.  The same loop orders   *)
(* the files of the generator (jet_runner.go), of the drift check (check.go) *)
(* and of a first migration (migration_scaffold.go).                        *)
(*                                                                         *)
(* A file is [creates, refs]: the tables its CREATE TABLE headers name and   *)
(* the tables its REFERENCES clauses name.  One step is one round of the     *)
(* loop.                                                                    *)
(***************************************************************************)
EXTENDS Integers, FiniteSets, Sequences

CONSTANTS
    Tables,      \* the table names
    InputFiles   \* the lists of files the sorter may be given

File == [creates : SUBSET Tables, refs : SUBSET Tables]

ASSUME TopoSortAssumption == InputFiles \subseteq Seq(File)

VARIABLES
    status,   \* idle, sorting, sorted or cycle
    files,    \* the input
    inDeg,    \* for each file, how many files it still waits for
    ready,    \* the files that wait for none
    out       \* the order made so far

topoVars == <<status, files, inDeg, ready, out>>

Indices(fs) == 1..Len(fs)

\* The last file that creates a table owns it.
Owns(fs, j, t) ==
    t \in fs[j].creates /\ \A k \in (j + 1)..Len(fs) : t \notin fs[k].creates

\* Mutant: a self-reference counts as an edge.
DepsWithSelf(fs, i) ==
    { j \in Indices(fs) : \E t \in fs[i].refs : Owns(fs, j, t) }

\* The files file i waits for: the owners of the tables it references, but
\* itself.  A table no file creates is somebody else's, and two references to
\* one file are one edge.
Deps(fs, i) ==
    { j \in Indices(fs) \ {i} : \E t \in fs[i].refs : Owns(fs, j, t) }

Emitted == { out[k] : k \in DOMAIN out }

---------------------------------------------------------------------------
Begin(fs) ==
    /\ status = "idle"
    /\ status' = "sorting"
    /\ files' = fs
    /\ inDeg' = [i \in Indices(fs) |-> Cardinality(Deps(fs, i))]
    /\ ready' = { i \in Indices(fs) : Deps(fs, i) = {} }
    /\ out' = <<>>

\* Mutant: any ready file will do.
AnyReady(i) == i \in ready

\* The first ready file in input order.
FirstReady(i) == i \in ready /\ \A j \in ready : i <= j

\* Mutant: an edge is counted down once for every reference it stands for.
CountdownParallel(i) ==
    [j \in DOMAIN inDeg |->
        IF i = j THEN inDeg[j]
        ELSE inDeg[j] - Cardinality({ t \in files[j].refs : Owns(files, i, t) })]

\* One file less to wait for, for those that waited for file i.
Countdown(i) ==
    [j \in DOMAIN inDeg |-> IF i \in Deps(files, j) THEN inDeg[j] - 1 ELSE inDeg[j]]

\* Mutant: the first file that goes out frees those that wait for it.
FreedEarly(i) == { j \in DOMAIN inDeg : i \in Deps(files, j) /\ j \notin Emitted }

\* The files that waited for file i and now wait for none.
Freed(i) == { j \in DOMAIN inDeg : i \in Deps(files, j) /\ Countdown(i)[j] = 0 }

Emit(i) ==
    /\ status = "sorting"
    /\ FirstReady(i)
    /\ out' = Append(out, i)
    /\ inDeg' = Countdown(i)
    /\ ready' = (ready \ {i}) \cup Freed(i)
    /\ UNCHANGED <<status, files>>

\* Mutant: the loop goes on until every file is out.
FinishWhenAllOut ==
    /\ status = "sorting"
    /\ Len(out) = Len(files)
    /\ status' = "sorted"
    /\ UNCHANGED <<files, inDeg, ready, out>>

\* Nothing is ready any more: every file is out, or there is a cycle.
Finish ==
    /\ status = "sorting"
    /\ ready = {}
    /\ status' = IF Len(out) = Len(files) THEN "sorted" ELSE "cycle"
    /\ UNCHANGED <<files, inDeg, ready, out>>

\* The files the error names.
Leftovers == { i \in Indices(files) : inDeg[i] > 0 }

TopoInit ==
    /\ status = "idle"
    /\ files = <<>> /\ inDeg = <<>> /\ ready = {} /\ out = <<>>

TopoNext ==
    \/ \E fs \in InputFiles : Begin(fs)
    \/ \E i \in ready : Emit(i)
    \/ Finish

TopoSpec == TopoInit /\ [][TopoNext]_topoVars

\* The loop runs to its end.
FairTopoSpec == TopoSpec /\ WF_topoVars(\E i \in ready : Emit(i)) /\ WF_topoVars(Finish)

---------------------------------------------------------------------------
(* Properties *)

\* Every variable keeps the shape its description gives it.
TopoTypeOK ==
    /\ status \in {"idle", "sorting", "sorted", "cycle"}
    /\ files \in Seq(File)
    /\ inDeg \in [Indices(files) -> Nat]
    /\ ready \subseteq Indices(files)
    /\ out \in Seq(Indices(files))

\* In the order made so far no file comes twice, and every table a file
\* references that any file creates is created by a file that comes before it or
\* by itself (the loop over `ready`).
CreatedFirst ==
    \A k \in DOMAIN out :
        /\ \A l \in DOMAIN out : out[l] = out[k] => l = k
        /\ \A t \in files[out[k]].refs :
              (\E j \in Indices(files) : t \in files[j].creates)
                  => \E l \in 1..k : t \in files[out[l]].creates

\* Of all orders the one made takes, at every place, the file that comes first
\* in the input among those that may come there: the same files in the same
\* order give the same result (the sort.Ints calls).
InputOrderBreaksTies ==
    \A k \in DOMAIN out :
        LET before == { out[l] : l \in 1..(k - 1) } IN
        \A i \in Indices(files) \ before : Deps(files, i) \subseteq before => out[k] <= i

\* The order is refused only if each file left over references a table of
\* another one left over, so that some of them are on a cycle; and the error
\* names every file that has not come out.
CycleIsReal ==
    status = "cycle" =>
        /\ Leftovers = Indices(files) \ Emitted
        /\ Leftovers # {}
        /\ \A i \in Leftovers : \E j \in Leftovers \ {i} :
              files[i].refs \cap files[j].creates # {}

\* The sorter returns: with every file in the order, or with a cycle.
SortEnds ==
    status = "sorting" ~>
        \/ status = "sorted" /\ Emitted = Indices(files)
        \/ status = "cycle"

\* What the loop keeps true between two rounds: a file has waited for the owners
\* of the tables it references, waits for those not yet out, and is ready when
\* there are none.
TopoInv ==
    /\ TopoTypeOK
    /\ \A k \in DOMAIN out : Deps(files, out[k]) \subseteq { out[l] : l \in 1..(k - 1) }
    /\ \A k, l \in DOMAIN out : out[k] = out[l] => k = l
    /\ InputOrderBreaksTies
    /\ \A i \in Indices(files) : inDeg[i] = Cardinality(Deps(files, i) \ Emitted)
    /\ status # "idle" =>
          ready = { i \in Indices(files) \ Emitted : Deps(files, i) \subseteq Emitted }
    /\ status \in {"sorted", "cycle"} => ready = {}
    /\ status = "sorted" <=> status # "idle" /\ status # "sorting" /\ Len(out) = Len(files)
===============================================================================
