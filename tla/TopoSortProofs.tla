---------------------------- MODULE TopoSortProofs ----------------------------
(***************************************************************************)
(* For every list of files: the order made applies no file before the ones   *)
(* that create the tables it references, ties are broken by input order, and *)
(* a list is refused only for a cycle.                                       *)
(***************************************************************************)
EXTENDS TopoSort, Foundations, FiniteSetTheorems

\* The files a file waits for are finitely many, and it is none of them.
LEMMA DepsFinite ==
    ASSUME NEW fs \in Seq(File), NEW i
    PROVE  /\ Deps(fs, i) \subseteq Indices(fs) \ {i}
           /\ IsFiniteSet(Deps(fs, i))
           /\ \A S : IsFiniteSet(Deps(fs, i) \ S)
<1>1. Deps(fs, i) \subseteq Indices(fs) \ {i}
  BY DEF Deps
<1>2. Len(fs) \in Nat
  OBVIOUS
<1>3. IsFiniteSet(Indices(fs))
  BY <1>2, FS_Interval DEF Indices
<1>4. \A S : Deps(fs, i) \ S \in SUBSET Indices(fs)
  BY <1>1
<1>5. Deps(fs, i) \in SUBSET Indices(fs)
  BY <1>1
<1> QED
  BY <1>1, <1>3, <1>4, <1>5, FS_Subset

\* A table that some file creates has an owner.
LEMMA OwnerExists ==
    ASSUME NEW fs \in Seq(File), NEW t, NEW j \in Indices(fs), t \in fs[j].creates
    PROVE  \E o \in Indices(fs) : Owns(fs, o, t)
<1> DEFINE C == { k \in Indices(fs) : t \in fs[k].creates }
<1>1. Len(fs) \in Nat /\ C \subseteq 0..Len(fs) /\ C # {}
  BY DEF Indices
<1>2. PICK o \in C : \A k \in C : k <= o
  <2> HIDE DEF C
  <2> QED
    BY <1>1, NatGreatest
<1>3. o \in Indices(fs) /\ t \in fs[o].creates /\ o \in Nat
  BY <1>1, <1>2
<1>4. ASSUME NEW k \in (o + 1)..Len(fs), t \in fs[k].creates
      PROVE  FALSE
  <2>1. k \in C
    BY <1>1, <1>3, <1>4 DEF Indices
  <2> QED
    BY <1>2, <1>3, <2>1
<1> QED
  BY <1>3, <1>4 DEF Owns

\* At the start nothing is out.
LEMMA InitTopoInv == TopoInit => TopoInv
<1> SUFFICES ASSUME TopoInit PROVE TopoInv
  OBVIOUS
<1>1. status = "idle" /\ files = <<>> /\ inDeg = <<>> /\ ready = {} /\ out = <<>>
  BY DEF TopoInit
<1>2. TopoTypeOK
  BY <1>1 DEF TopoTypeOK, Indices
<1>3. InputOrderBreaksTies
  BY <1>1 DEF InputOrderBreaksTies
<1> QED
  BY <1>1, <1>2, <1>3 DEF TopoInv, Indices

\* When the sort begins every file waits for the owners of the tables it
\* references.
LEMMA BeginKeepsTopoInv ==
    ASSUME NEW fs \in Seq(File), Begin(fs)
    PROVE  TopoInv'
<1>1. /\ status' = "sorting" /\ files' = fs /\ out' = <<>>
      /\ inDeg' = [i \in Indices(fs) |-> Cardinality(Deps(fs, i))]
      /\ ready' = { i \in Indices(fs) : Deps(fs, i) = {} }
  BY DEF Begin
<1>2. \A i \in Indices(fs) : Cardinality(Deps(fs, i)) \in Nat
  BY <1>1, DepsFinite, FS_CardinalityType
<1>3. Emitted' = {}
  BY <1>1 DEF Emitted
<1>4. TopoTypeOK'
  BY <1>1, <1>2 DEF TopoTypeOK, Indices
<1>5. InputOrderBreaksTies'
  BY <1>1 DEF InputOrderBreaksTies
<1>6. \A i \in Indices(files') : inDeg'[i] = Cardinality(Deps(files', i) \ Emitted')
  <2>1. \A i : Deps(fs, i) \ {} = Deps(fs, i)
    OBVIOUS
  <2> QED
    BY <1>1, <1>3, <2>1
<1>7. ready' = { i \in Indices(files') \ Emitted' : Deps(files', i) \subseteq Emitted' }
  BY <1>1, <1>3
<1> QED
  BY <1>1, <1>3, <1>4, <1>5, <1>6, <1>7 DEF TopoInv

\* A file that goes out waited for none, was the first such, and frees exactly
\* the files that now wait for none.
LEMMA EmitKeepsTopoInv ==
    ASSUME TopoInv, NEW i \in ready, Emit(i)
    PROVE  TopoInv'
<1>1. /\ status = "sorting" /\ status' = "sorting" /\ files' = files
      /\ \A j \in ready : i <= j
      /\ out' = Append(out, i)
      /\ inDeg' = Countdown(i)
      /\ ready' = (ready \ {i}) \cup Freed(i)
  BY DEF Emit, FirstReady
<1>2. /\ files \in Seq(File) /\ Len(files) \in Nat /\ out \in Seq(Indices(files))
      /\ inDeg \in [Indices(files) -> Nat] /\ DOMAIN inDeg = Indices(files)
  BY DEF TopoInv, TopoTypeOK
<1>3. /\ \A k \in DOMAIN out : Deps(files, out[k]) \subseteq { out[l] : l \in 1..(k - 1) }
      /\ \A k, l \in DOMAIN out : out[k] = out[l] => k = l
      /\ \A j \in Indices(files) : inDeg[j] = Cardinality(Deps(files, j) \ Emitted)
      /\ ready = { j \in Indices(files) \ Emitted : Deps(files, j) \subseteq Emitted }
  BY <1>1 DEF TopoInv
<1>4. i \in Indices(files) /\ i \notin Emitted /\ Deps(files, i) \subseteq Emitted
  BY <1>3
<1> DEFINE n == Len(out)
<1>5. /\ n \in Nat /\ DOMAIN out = 1..n /\ DOMAIN out' = 1..(n + 1)
      /\ \A k \in 1..n : out'[k] = out[k]
      /\ out'[n + 1] = i
      /\ out' \in Seq(Indices(files))
  BY <1>1, <1>2, <1>4
<1>6. \A k \in 1..(n + 1) : { out'[l] : l \in 1..(k - 1) } = { out[l] : l \in 1..(k - 1) }
  BY <1>5
<1>7. { out[l] : l \in 1..((n + 1) - 1) } = Emitted
  BY <1>5 DEF Emitted
<1> HIDE DEF n
<1>8. Emitted' = Emitted \cup {i}
  <2>1. Emitted' = { out'[k] : k \in 1..(n + 1) } /\ Emitted = { out[k] : k \in 1..n }
    BY <1>5 DEF Emitted
  <2> QED
    BY <1>5, <2>1
<1>9. \A j \in Emitted : Deps(files, j) \subseteq Emitted
  BY <1>3, <1>5 DEF Emitted
<1>10. \A j \in Indices(files) : inDeg'[j] = Cardinality(Deps(files, j) \ Emitted')
  <2> TAKE j \in Indices(files)
  <2> DEFINE S == Deps(files, j) \ Emitted
  <2>1. IsFiniteSet(S) /\ inDeg[j] = Cardinality(S)
    BY <1>2, <1>3, DepsFinite
  <2>2. Deps(files, j) \ Emitted' = S \ {i}
    BY <1>8
  <2>3. i \in S <=> i \in Deps(files, j)
    BY <1>4
  <2> HIDE DEF S
  <2>4. Cardinality(S \ {i}) = IF i \in S THEN Cardinality(S) - 1 ELSE Cardinality(S)
    BY <2>1, FS_RemoveElement
  <2>5. inDeg'[j] = IF i \in Deps(files, j) THEN inDeg[j] - 1 ELSE inDeg[j]
    BY <1>1, <1>2 DEF Countdown
  <2> QED
    BY <2>1, <2>2, <2>3, <2>4, <2>5
<1>11. \A j \in Indices(files) :
          /\ inDeg'[j] \in Nat
          /\ inDeg'[j] = 0 <=> Deps(files, j) \subseteq Emitted'
  <2> TAKE j \in Indices(files)
  <2> DEFINE S == Deps(files, j) \ Emitted'
  <2>1. IsFiniteSet(S) /\ inDeg'[j] = Cardinality(S)
    BY <1>2, <1>10, DepsFinite
  <2>2. S = {} <=> Deps(files, j) \subseteq Emitted'
    OBVIOUS
  <2> HIDE DEF S
  <2>3. Cardinality(S) \in Nat /\ (Cardinality(S) = 0 <=> S = {})
    BY <2>1, FS_CardinalityType, FS_EmptySet
  <2> QED
    BY <2>1, <2>2, <2>3
<1>12. ready' = { j \in Indices(files) \ Emitted' : Deps(files, j) \subseteq Emitted' }
  <2>1. Freed(i) = { j \in Indices(files) : i \in Deps(files, j) /\ inDeg'[j] = 0 }
    BY <1>1, <1>2 DEF Freed
  <2>2. i \notin Deps(files, i)
    BY <1>2, DepsFinite
  <2>3. ASSUME NEW j \in Indices(files)
        PROVE  j \in ready' <=> j \notin Emitted' /\ Deps(files, j) \subseteq Emitted'
    <3>1. CASE i \in Deps(files, j)
      <4>1. j \notin Emitted /\ j # i /\ j \notin ready
        BY <1>3, <1>4, <1>9, <2>2, <3>1
      <4> QED
        BY <1>1, <1>8, <1>11, <2>1, <3>1, <4>1
    <3>2. CASE i \notin Deps(files, j)
      BY <1>1, <1>3, <1>8, <2>1, <3>2
    <3> QED
      BY <3>1, <3>2
  <2>4. ready' \subseteq Indices(files)
    BY <1>1, <1>3, <2>1
  <2> QED
    BY <2>3, <2>4
<1>13. TopoTypeOK'
  <2>1. inDeg' \in [Indices(files) -> Nat]
    <3>1. inDeg' = [j \in Indices(files) |-> inDeg'[j]]
      BY <1>1, <1>2 DEF Countdown
    <3> QED
      BY <1>11, <3>1
  <2> QED
    BY <1>1, <1>2, <1>5, <1>12, <2>1 DEF TopoTypeOK
<1>14. \A k \in DOMAIN out' : Deps(files', out'[k]) \subseteq { out'[l] : l \in 1..(k - 1) }
  <2> TAKE k \in DOMAIN out'
  <2>1. CASE k \in 1..n
    BY <1>1, <1>3, <1>5, <1>6, <2>1
  <2>2. CASE k = n + 1
    BY <1>1, <1>4, <1>5, <1>6, <1>7, <2>2
  <2> QED
    BY <1>5, <2>1, <2>2
<1>15. \A k, l \in DOMAIN out' : out'[k] = out'[l] => k = l
  <2>1. \A k \in 1..n : out'[k] # i
    BY <1>4, <1>5 DEF Emitted
  <2> QED
    BY <1>3, <1>5, <2>1
<1>16. InputOrderBreaksTies'
  <2> SUFFICES ASSUME NEW k \in DOMAIN out',
                      NEW j \in Indices(files) \ { out'[l] : l \in 1..(k - 1) },
                      Deps(files, j) \subseteq { out'[l] : l \in 1..(k - 1) }
               PROVE  out'[k] <= j
    BY <1>1 DEF InputOrderBreaksTies
  <2>1. CASE k \in 1..n
    <3>1. InputOrderBreaksTies
      BY DEF TopoInv
    <3>2. /\ j \in Indices(files) \ { out[l] : l \in 1..(k - 1) }
          /\ Deps(files, j) \subseteq { out[l] : l \in 1..(k - 1) }
      BY <1>5, <1>6
    <3>3. out[k] <= j
      BY <1>5, <2>1, <3>1, <3>2 DEF InputOrderBreaksTies
    <3> QED
      BY <1>5, <2>1, <3>3
  <2>2. CASE k = n + 1
    <3>1. j \in Indices(files) \ Emitted /\ Deps(files, j) \subseteq Emitted
      BY <1>5, <1>6, <1>7, <2>2
    <3> QED
      BY <1>1, <1>3, <1>5, <2>2, <3>1
  <2> QED
    BY <1>5, <2>1, <2>2
<1> QED
  BY <1>1, <1>10, <1>12, <1>13, <1>14, <1>15, <1>16 DEF TopoInv

\* The end of the loop changes nothing but the status.
LEMMA FinishKeepsTopoInv == TopoInv /\ Finish => TopoInv'
<1> SUFFICES ASSUME TopoInv, Finish PROVE TopoInv'
  OBVIOUS
<1>1. /\ status = "sorting" /\ ready = {} /\ UNCHANGED <<files, inDeg, ready, out>>
      /\ status' = IF Len(out) = Len(files) THEN "sorted" ELSE "cycle"
  BY DEF Finish
<1>2. Emitted' = Emitted
  BY <1>1 DEF Emitted
<1>3. TopoTypeOK'
  BY <1>1 DEF TopoInv, TopoTypeOK
<1>4. InputOrderBreaksTies'
  <2>1. InputOrderBreaksTies
    BY DEF TopoInv
  <2> QED
    BY <1>1, <2>1 DEF InputOrderBreaksTies
<1> QED
  BY <1>1, <1>2, <1>3, <1>4 DEF TopoInv

\* A step that leaves the sorter alone keeps its invariant.
LEMMA StutterKeepsTopoInv == TopoInv /\ UNCHANGED topoVars => TopoInv'
<1> SUFFICES ASSUME TopoInv, UNCHANGED topoVars PROVE TopoInv'
  OBVIOUS
<1>1. /\ status' = status /\ files' = files /\ inDeg' = inDeg
      /\ ready' = ready /\ out' = out
  BY DEF topoVars
<1>2. TopoTypeOK' = TopoTypeOK
  BY <1>1 DEF TopoTypeOK
<1>3. InputOrderBreaksTies' = InputOrderBreaksTies
  BY <1>1 DEF InputOrderBreaksTies
<1>4. Emitted' = Emitted
  BY <1>1 DEF Emitted
<1>5. (\A k \in DOMAIN out : Deps(files, out[k]) \subseteq { out[l] : l \in 1..(k - 1) })'
  BY <1>1 DEF TopoInv
<1>6. (\A k, l \in DOMAIN out : out[k] = out[l] => k = l)'
  BY <1>1 DEF TopoInv
<1>7. (\A i \in Indices(files) : inDeg[i] = Cardinality(Deps(files, i) \ Emitted))'
  BY <1>1, <1>4 DEF TopoInv
<1>8. (status # "idle" =>
         ready = { i \in Indices(files) \ Emitted : Deps(files, i) \subseteq Emitted })'
  BY <1>1, <1>4 DEF TopoInv
<1>9. /\ (status \in {"sorted", "cycle"} => ready = {})'
      /\ (status = "sorted" <=> status # "idle" /\ status # "sorting"
                                   /\ Len(out) = Len(files))'
  BY <1>1 DEF TopoInv
<1> QED
  BY <1>2, <1>3, <1>5, <1>6, <1>7, <1>8, <1>9 DEF TopoInv

\* So does putting the result aside.
LEMMA ResetKeepsTopoInv ==
    ASSUME TopoInv, status' = "idle", UNCHANGED <<files, inDeg, ready, out>>
    PROVE  TopoInv'
<1>1. Emitted' = Emitted
  BY DEF Emitted
<1>2. TopoTypeOK'
  BY DEF TopoInv, TopoTypeOK
<1>3. InputOrderBreaksTies'
  <2>1. InputOrderBreaksTies
    BY DEF TopoInv
  <2> QED
    BY <2>1 DEF InputOrderBreaksTies
<1> QED
  BY <1>1, <1>2, <1>3 DEF TopoInv

\* The invariant of the sorter's loop.
THEOREM TopoInvariant == TopoSpec => []TopoInv
<1>1. TopoInit => TopoInv
  BY InitTopoInv
<1>2. TopoInv /\ [TopoNext]_topoVars => TopoInv'
  <2> SUFFICES ASSUME TopoInv, [TopoNext]_topoVars PROVE TopoInv'
    OBVIOUS
  <2>1. CASE \E fs \in InputFiles : Begin(fs)
    BY <2>1, BeginKeepsTopoInv, TopoSortAssumption
  <2>2. CASE \E i \in ready : Emit(i)
    BY <2>2, EmitKeepsTopoInv
  <2>3. CASE Finish
    BY <2>3, FinishKeepsTopoInv
  <2>4. CASE UNCHANGED topoVars
    BY <2>4, StutterKeepsTopoInv
  <2> QED
    BY <2>1, <2>2, <2>3, <2>4 DEF TopoNext
<1> QED
  BY <1>1, <1>2, PTL DEF TopoSpec

\* The sorter's variables keep their types: a file's count is never negative and
\* only files of the input come out (topoSortDDL).
THEOREM SorterIsTyped == TopoSpec => []TopoTypeOK
<1>1. TopoInv => TopoTypeOK
  BY DEF TopoInv
<1> QED
  BY <1>1, TopoInvariant, PTL

\* A file comes after the owners of the tables it references.
LEMMA FilesComeAfterOwners == TopoInv => CreatedFirst
<1> SUFFICES ASSUME TopoInv, NEW k \in DOMAIN out,
                    NEW t \in files[out[k]].refs,
                    NEW j \in Indices(files), t \in files[j].creates
             PROVE  \E l \in 1..k : t \in files[out[l]].creates
  BY DEF TopoInv, CreatedFirst
<1>1. files \in Seq(File) /\ out \in Seq(Indices(files))
  BY DEF TopoInv, TopoTypeOK
<1>2. PICK o \in Indices(files) : Owns(files, o, t)
  BY <1>1, OwnerExists
<1>3. t \in files[o].creates
  BY <1>2 DEF Owns
<1>4. k \in Nat /\ k >= 1
  BY <1>1
<1>5. CASE o = out[k]
  BY <1>3, <1>4, <1>5
<1>6. CASE o # out[k]
  <2>1. o \in Deps(files, out[k])
    BY <1>2, <1>6 DEF Deps
  <2>2. PICK l \in 1..(k - 1) : o = out[l]
    BY <2>1 DEF TopoInv
  <2> QED
    BY <1>3, <1>4, <2>2
<1> QED
  BY <1>5, <1>6

\* For every list of files: every table a file references that some file creates
\* is created before that file or by it (topoSortDDL's reason to exist).
THEOREM TablesAreCreatedFirst == TopoSpec => []CreatedFirst
BY FilesComeAfterOwners, TopoInvariant, PTL

\* For every list of files: the order is the one input order breaks ties of.
THEOREM OrderIsDeterministic == TopoSpec => []InputOrderBreaksTies
<1>1. TopoInv => InputOrderBreaksTies
  BY DEF TopoInv
<1> QED
  BY <1>1, TopoInvariant, PTL

\* Every file that is left waits for one that is left.
LEMMA LeftoversWait == TopoInv => CycleIsReal
<1> SUFFICES ASSUME TopoInv, status = "cycle"
             PROVE  /\ Leftovers = Indices(files) \ Emitted
                    /\ Leftovers # {}
                    /\ \A i \in Leftovers : \E j \in Leftovers \ {i} :
                          files[i].refs \cap files[j].creates # {}
  BY DEF CycleIsReal
<1>1. /\ files \in Seq(File) /\ Len(files) \in Nat /\ out \in Seq(Indices(files))
      /\ inDeg \in [Indices(files) -> Nat] /\ ready = {} /\ Len(out) # Len(files)
  BY DEF TopoInv, TopoTypeOK
<1>2. \A i \in Indices(files) \ Emitted : ~(Deps(files, i) \subseteq Emitted)
  BY <1>1 DEF TopoInv
<1>3. \A i \in Emitted : Deps(files, i) \subseteq Emitted
  BY <1>1 DEF TopoInv, Emitted
<1>4. \A i \in Indices(files) : inDeg[i] > 0 <=> i \notin Emitted
  <2> TAKE i \in Indices(files)
  <2> DEFINE S == Deps(files, i) \ Emitted
  <2>1. IsFiniteSet(S) /\ inDeg[i] = Cardinality(S)
    BY <1>1, DepsFinite DEF TopoInv
  <2>2. S = {} <=> i \in Emitted
    BY <1>2, <1>3
  <2> HIDE DEF S
  <2>3. Cardinality(S) \in Nat /\ (Cardinality(S) = 0 <=> S = {})
    BY <2>1, FS_CardinalityType, FS_EmptySet
  <2> QED
    BY <2>1, <2>2, <2>3
<1>5. Leftovers = Indices(files) \ Emitted
  BY <1>4 DEF Leftovers
<1>6. Leftovers # {}
  <2> SUFFICES ASSUME Indices(files) \subseteq Emitted PROVE FALSE
    BY <1>5
  <2>1. out \in [1..Len(out) -> Indices(files)] /\ Len(out) \in Nat /\ DOMAIN out = 1..Len(out)
    BY <1>1
  <2>2. out \in Injection(1..Len(out), Indices(files))
    BY <2>1 DEF TopoInv, Injection, IsInjective
  <2>3. out \in Surjection(1..Len(out), Indices(files))
    BY <2>1 DEF Surjection, Emitted
  <2>4. /\ IsFiniteSet(Indices(files)) /\ Cardinality(Indices(files)) = Len(files)
        /\ Cardinality(1..Len(out)) = Len(out)
    <3>1. \A n \in Nat : IsFiniteSet(1..n) /\ Cardinality(1..n) = n
      BY FS_Interval
    <3> QED
      BY <1>1, <2>1, <3>1 DEF Indices
  <2> HIDE DEF Indices
  <2>5. Cardinality(1..Len(out)) = Cardinality(Indices(files))
    BY <2>2, <2>3, <2>4, FS_Injection
  <2> QED
    BY <1>1, <2>4, <2>5
<1>7. ASSUME NEW i \in Leftovers
      PROVE  \E j \in Leftovers \ {i} : files[i].refs \cap files[j].creates # {}
  <2>1. PICK j \in Deps(files, i) : j \notin Emitted
    BY <1>2, <1>5
  <2>2. j \in Leftovers \ {i}
    BY <1>5, <2>1 DEF Deps
  <2> QED
    BY <2>1, <2>2 DEF Deps, Owns
<1> QED
  BY <1>5, <1>6, <1>7

\* For every list of files: it is refused only if some files wait for one
\* another, and the error names all that are left.
THEOREM RefusedOnlyForACycle == TopoSpec => []CycleIsReal
BY LeftoversWait, TopoInvariant, PTL
===============================================================================
