--------------------------- MODULE PaginationProofs ---------------------------
(***************************************************************************)
(* For every number of servers, rows, filters and page sizes: over all its  *)
(* pages a list is strictly ordered, and a list that ends has skipped no    *)
(* row that was there all along.                                            *)
(***************************************************************************)
EXTENDS Pagination, Foundations, TLAPS, FiniteSetTheorems, SequenceTheorems

---------------------------------------------------------------------------
(* What Keyset computes, for every order and all keys: ORDER BY is a strict  *)
(* order, total on keys that differ, and both keyset conditions keep exactly *)
(* the rows that order puts after the cursor.                                *)

\* An order over some paths.
IsOrder(ord) ==
    /\ DOMAIN ord = 1..Len(ord) /\ Len(ord) \in Nat
    /\ \A i \in DOMAIN ord : ord[i].dir \in {Asc, Desc}

\* A key of that order.
IsKey(ord, k) == \A i \in DOMAIN ord : k[i] \in Int

\* Two keys that differ somewhere have a first difference
\* (the pair that decides a row comparison).
LEMMA FirstDifference ==
    ASSUME NEW ord, IsOrder(ord), NEW k, NEW l,
           Differences(ord, k, l) # {}
    PROVE  \E i \in Differences(ord, k, l) :
              /\ \A j \in Differences(ord, k, l) : i <= j
              /\ AgreeBefore(k, l, i)
<1>1. Differences(ord, k, l) \subseteq Nat
  BY DEF Differences, IsOrder
<1>2. PICK i \in Differences(ord, k, l) :
          \A j \in Differences(ord, k, l) : i <= j
  BY <1>1, NatLeast
<1>3. i \in 1..Len(ord) /\ Len(ord) \in Nat
  BY DEF Differences, IsOrder
<1>4. ASSUME NEW j \in 1..(i - 1)
      PROVE  k[j] = l[j]
  <2>1. j \in DOMAIN ord /\ ~(i <= j)
    BY <1>3 DEF IsOrder
  <2> QED
    BY <2>1, <1>2 DEF Differences
<1> QED
  BY <1>2, <1>4 DEF AgreeBefore

\* No key sorts before itself.
LEMMA SortsBeforeIrreflexive ==
    ASSUME NEW ord, NEW k, IsKey(ord, k)
    PROVE  ~SortsBefore(ord, k, k)
BY DEF SortsBefore, DirectionExpr, IsKey

\* The order of a query is transitive.
LEMMA SortsBeforeTransitive ==
    ASSUME NEW ord, IsOrder(ord),
           NEW k, IsKey(ord, k), NEW l, IsKey(ord, l), NEW m, IsKey(ord, m),
           SortsBefore(ord, k, l), SortsBefore(ord, l, m)
    PROVE  SortsBefore(ord, k, m)
<1>1. PICK i \in DOMAIN ord :
          AgreeBefore(k, l, i) /\ DirectionExpr(ord[i].dir, l[i], k[i])
  BY DEF SortsBefore
<1>2. PICK j \in DOMAIN ord :
          AgreeBefore(l, m, j) /\ DirectionExpr(ord[j].dir, m[j], l[j])
  BY DEF SortsBefore
<1>3. i \in Nat /\ j \in Nat /\ i >= 1 /\ j >= 1
  BY DEF IsOrder
<1>4. /\ k[i] \in Int /\ l[i] \in Int /\ m[i] \in Int
      /\ k[j] \in Int /\ l[j] \in Int /\ m[j] \in Int
  BY DEF IsKey
<1>5. CASE i < j
  <2>1. AgreeBefore(k, m, i) /\ l[i] = m[i]
    BY <1>1, <1>2, <1>3, <1>5 DEF AgreeBefore
  <2> QED
    BY <2>1, <1>1 DEF SortsBefore
<1>6. CASE j < i
  <2>1. AgreeBefore(k, m, j) /\ k[j] = l[j]
    BY <1>1, <1>2, <1>3, <1>6 DEF AgreeBefore
  <2> QED
    BY <2>1, <1>2 DEF SortsBefore
<1>7. CASE i = j
  <2>1. AgreeBefore(k, m, i)
    BY <1>1, <1>2, <1>3, <1>7 DEF AgreeBefore
  <2>2. DirectionExpr(ord[i].dir, m[i], k[i])
    BY <1>1, <1>2, <1>4, <1>7 DEF DirectionExpr
  <2> QED
    BY <2>1, <2>2 DEF SortsBefore
<1> QED
  BY <1>3, <1>5, <1>6, <1>7

\* Keys that differ are ordered one way or the other.
LEMMA SortsBeforeTotal ==
    ASSUME NEW ord, IsOrder(ord), NEW k, IsKey(ord, k), NEW l, IsKey(ord, l),
           NEW p \in DOMAIN ord, k[p] # l[p]
    PROVE  SortsBefore(ord, k, l) \/ SortsBefore(ord, l, k)
<1>1. Differences(ord, k, l) # {}
  BY DEF Differences
<1>2. PICK i \in Differences(ord, k, l) : AgreeBefore(k, l, i)
  BY <1>1, FirstDifference
<1>3. i \in DOMAIN ord /\ k[i] # l[i] /\ k[i] \in Int /\ l[i] \in Int
  BY DEF Differences, IsKey
<1>4. DirectionExpr(ord[i].dir, l[i], k[i]) \/ DirectionExpr(ord[i].dir, k[i], l[i])
  BY <1>3 DEF DirectionExpr
<1>5. AgreeBefore(l, k, i)
  BY <1>2 DEF AgreeBefore
<1> QED
  BY <1>2, <1>3, <1>4, <1>5 DEF SortsBefore

\* The row comparison of a uniform order is its ORDER BY (buildTupleComparison).
THEOREM TupleComparisonIsSortsBefore ==
    ASSUME NEW ord, IsOrder(ord), IsUniformDirection(ord), Len(ord) # 0,
           NEW vals, IsKey(ord, vals), NEW k, IsKey(ord, k)
    PROVE  TupleComparison(ord, vals, k) <=> SortsBefore(ord, vals, k)
<1> DEFINE diff  == Differences(ord, k, vals)
           first == CHOOSE i \in diff : \A j \in diff : i <= j
<1>1. \A i \in DOMAIN ord : ord[i].dir = ord[1].dir
  BY DEF IsUniformDirection, IsOrder
<1>2. CASE diff = {}
  <2>1. \A i \in DOMAIN ord : k[i] = vals[i]
    BY <1>2 DEF Differences
  <2>2. ~SortsBefore(ord, vals, k)
    BY <2>1 DEF SortsBefore, DirectionExpr, IsKey
  <2> QED
    BY <1>2, <2>2 DEF TupleComparison
<1>3. CASE diff # {}
  <2>1. PICK f \in diff : (\A j \in diff : f <= j) /\ AgreeBefore(k, vals, f)
    BY <1>3, FirstDifference
  <2>2. diff \subseteq Nat /\ diff \subseteq DOMAIN ord
    BY DEF Differences, IsOrder
  <2>3. first \in diff /\ \A j \in diff : first <= j
    BY <2>1
  <2>4. first = f
    BY <2>1, <2>2, <2>3
  <2>5. TupleComparison(ord, vals, k)
            <=> DirectionExpr(ord[f].dir, k[f], vals[f])
    BY <1>1, <1>3, <2>2, <2>4 DEF TupleComparison
  <2>6. AgreeBefore(vals, k, f)
    BY <2>1 DEF AgreeBefore
  <2>7. ASSUME SortsBefore(ord, vals, k)
        PROVE  DirectionExpr(ord[f].dir, k[f], vals[f])
    <3>1. PICK i \in DOMAIN ord :
              AgreeBefore(vals, k, i) /\ DirectionExpr(ord[i].dir, k[i], vals[i])
      BY <2>7 DEF SortsBefore
    <3>2. k[i] # vals[i] /\ i \in Nat
      BY <3>1 DEF DirectionExpr, IsKey, IsOrder
    <3>3. i \in diff
      BY <3>2 DEF Differences
    <3>4. f \in Nat /\ f >= 1 /\ f <= i /\ k[f] # vals[f]
      BY <2>1, <2>2, <3>3 DEF Differences, IsOrder
    <3>5. f = i
      BY <3>1, <3>2, <3>4 DEF AgreeBefore
    <3> QED
      BY <3>1, <3>5
  <2> QED
    BY <2>2, <2>5, <2>6, <2>7 DEF SortsBefore
<1> QED
  BY <1>2, <1>3

\* Under a cursor of the order's length the WHERE condition keeps exactly the
\* rows that sort after the cursor, whichever of its two forms it takes
\* (buildKeysetCondition).
THEOREM KeysetKeepsWhatSortsAfter ==
    ASSUME NEW ord, IsOrder(ord), Len(ord) # 0,
           NEW vals, IsKey(ord, vals), vals # <<>>, NEW k, IsKey(ord, k)
    PROVE  KeysetCondition(ord, vals, k) <=> SortsBefore(ord, vals, k)
<1>1. LexicographicFallback(ord, vals, k) <=> SortsBefore(ord, vals, k)
  BY DEF LexicographicFallback, SortsBefore, AgreeBefore, IsKey
<1>2. CASE IsUniformDirection(ord)
  BY <1>2, TupleComparisonIsSortsBefore DEF KeysetCondition
<1>3. CASE ~IsUniformDirection(ord)
  BY <1>1, <1>3 DEF KeysetCondition
<1> QED
  BY <1>2, <1>3

---------------------------------------------------------------------------
(* Orders, tokens and pages *)

\* The sequence grown over a prefix of `add`.
Grown(g, dst, add, n) ==
    g = [m \in 0..n |->
            IF m = 0 THEN dst
            ELSE IF add[m].path \in PathsOf(g[m - 1]) THEN g[m - 1]
                 ELSE Append(g[m - 1], add[m])]

\* Such sequences exist for every length, so the recursive definition of
\* AppendUniqueFields has its intended value.
LEMMA GrownExists ==
    ASSUME NEW dst, NEW add, NEW n \in Nat
    PROVE  \E g : Grown(g, dst, add, n)
<1> DEFINE T == { k \in Nat : ~\E g : Grown(g, dst, add, k) }
<1> SUFFICES ASSUME T # {} PROVE FALSE
  OBVIOUS
<1>1. PICK k \in T : \A y \in T : k <= y
  BY NatLeast
<1>2. k # 0
  <2>1. Grown([m \in 0..0 |-> dst], dst, add, 0)
    BY DEF Grown
  <2> QED
    BY <2>1
<1>3. k - 1 \in Nat /\ k - 1 \notin T
  BY <1>1, <1>2
<1>4. PICK g : Grown(g, dst, add, k - 1)
  BY <1>3
<1> DEFINE next == IF add[k].path \in PathsOf(g[k - 1]) THEN g[k - 1]
                   ELSE Append(g[k - 1], add[k])
           h == [m \in 0..k |-> IF m = k THEN next ELSE g[m]]
<1>5. Grown(h, dst, add, k)
  <2>1. \A m \in 0..(k - 1) :
           g[m] = IF m = 0 THEN dst
                  ELSE IF add[m].path \in PathsOf(g[m - 1]) THEN g[m - 1]
                       ELSE Append(g[m - 1], add[m])
    BY <1>4 DEF Grown
  <2>2. \A m \in 0..k :
           h[m] = IF m = 0 THEN dst
                  ELSE IF add[m].path \in PathsOf(h[m - 1]) THEN h[m - 1]
                       ELSE Append(h[m - 1], add[m])
    BY <2>1, <1>2, <1>3
  <2> QED
    BY <2>2 DEF Grown
<1> QED
  BY <1>5

\* Appending a field adds its path and loses none.
LEMMA AppendAddsPath ==
    ASSUME NEW S, NEW s \in Seq(S), NEW e \in S
    PROVE  /\ Append(s, e) \in Seq(S)
           /\ PathsOf(s) \subseteq PathsOf(Append(s, e))
           /\ e.path \in PathsOf(Append(s, e))
<1> DEFINE t == Append(s, e)
<1>1. /\ t \in Seq(S) /\ DOMAIN s = 1..Len(s) /\ Len(s) \in Nat
      /\ DOMAIN t = 1..(Len(s) + 1)
      /\ \A i \in 1..Len(s) : t[i] = s[i]
      /\ t[Len(s) + 1] = e
  OBVIOUS
<1> HIDE DEF t
<1>2. PathsOf(s) \subseteq PathsOf(t)
  BY <1>1 DEF PathsOf
<1>3. e.path \in PathsOf(t)
  <2>1. Len(s) + 1 \in DOMAIN t
    BY <1>1
  <2> QED
    BY <1>1, <2>1 DEF PathsOf
<1> QED
  BY <1>1, <1>2, <1>3 DEF t

\* AppendUniqueFields keeps the fields it is given and adds every new path.
LEMMA AppendUniqueFieldsType ==
    ASSUME NEW S, NEW dst \in Seq(S), NEW add \in Seq(S)
    PROVE  /\ AppendUniqueFields(dst, add) \in Seq(S)
           /\ PathsOf(add) \subseteq PathsOf(AppendUniqueFields(dst, add))
<1>1. Len(add) \in Nat /\ DOMAIN add = 1..Len(add)
  OBVIOUS
<1>2. \E f : Grown(f, dst, add, Len(add)) /\ AppendUniqueFields(dst, add) = f[Len(add)]
  <2> DEFINE h == CHOOSE f : Grown(f, dst, add, Len(add))
  <2>1. Grown(h, dst, add, Len(add))
    BY <1>1, GrownExists
  <2>2. AppendUniqueFields(dst, add) = h[Len(add)]
    BY DEF AppendUniqueFields, Grown
  <2> QED
    BY <2>1, <2>2
<1>3. PICK g : Grown(g, dst, add, Len(add)) /\ AppendUniqueFields(dst, add) = g[Len(add)]
  BY <1>2
<1>4. g[0] = dst
  BY <1>1, <1>3 DEF Grown
<1>5. \A m \in 1..Len(add) :
         \/ add[m].path \in PathsOf(g[m - 1]) /\ g[m] = g[m - 1]
         \/ g[m] = Append(g[m - 1], add[m])
  <2>1. \A m \in 0..Len(add) :
           g[m] = IF m = 0 THEN dst
                  ELSE IF add[m].path \in PathsOf(g[m - 1]) THEN g[m - 1]
                       ELSE Append(g[m - 1], add[m])
    BY <1>3 DEF Grown
  <2> TAKE m \in 1..Len(add)
  <2>2. m \in 0..Len(add) /\ m # 0
    BY <1>1
  <2> QED
    BY <2>1, <2>2
<1> DEFINE n == Len(add)
           Good(m) == /\ g[m] \in Seq(S)
                      /\ \A i \in 1..m : add[i].path \in PathsOf(g[m])
<1>6. ASSUME NEW m \in 1..n, Good(m - 1)
      PROVE  Good(m)
  <2>1. CASE add[m].path \in PathsOf(g[m - 1]) /\ g[m] = g[m - 1]
    BY <1>1, <1>6, <2>1
  <2>2. CASE g[m] = Append(g[m - 1], add[m])
    <3>1. add[m] \in S /\ g[m - 1] \in Seq(S)
      BY <1>1, <1>6
    <3>2. /\ g[m] \in Seq(S)
          /\ PathsOf(g[m - 1]) \subseteq PathsOf(g[m])
          /\ add[m].path \in PathsOf(g[m])
      BY <2>2, <3>1, AppendAddsPath
    <3> QED
      BY <1>1, <1>6, <3>2
  <2> QED
    BY <1>5, <2>1, <2>2
<1>7. \A m \in 0..n : Good(m)
  <2> DEFINE T == { m \in 0..n : ~Good(m) }
  <2> SUFFICES ASSUME T # {} PROVE FALSE
    OBVIOUS
  <2>0. T \subseteq Nat
    BY <1>1
  <2>1. PICK m \in T : \A y \in T : m <= y
    BY <2>0, NatLeast
  <2>2. m # 0
    BY <1>4, <2>1
  <2>3. m \in 1..n /\ m - 1 \in 0..n /\ m - 1 \notin T
    BY <1>1, <2>1, <2>2
  <2>4. Good(m - 1)
    BY <2>3
  <2>5. Good(m)
    BY <1>6, <2>3, <2>4
  <2> QED
    BY <2>5
<1>8. Good(n)
  BY <1>1, <1>7
<1> QED
  BY <1>1, <1>3, <1>8 DEF PathsOf

\* A function on 1..n is a sequence.
LEMMA FunctionIsSeq ==
    ASSUME NEW S, NEW n \in Nat, NEW f, f = [i \in 1..n |-> f[i]],
           \A i \in 1..n : f[i] \in S
    PROVE  f \in Seq(S) /\ Len(f) = n
<1>1. f \in [1..n -> S]
  OBVIOUS
<1> QED
  BY <1>1, SeqDef

\* Orders whose rows the unique key tells apart.
Keyed(ord) == ord \in Seq(OrderFields) /\ KeyColumn \in PathsOf(ord)

\* A keyed order has integer keys on the rows of a table.
LEMMA KeyedOrders ==
    ASSUME NEW ord \in Seq(OrderFields)
    PROVE  /\ IsOrder(ord)
           /\ \A r \in Row : IsKey(ord, Key(ord, r)) /\ DOMAIN Key(ord, r) = DOMAIN ord
<1>1. Len(ord) \in Nat /\ DOMAIN ord = 1..Len(ord)
  OBVIOUS
<1>2. \A i \in DOMAIN ord : ord[i].path \in Columns /\ ord[i].dir \in {Asc, Desc}
  <2>1. \A i \in DOMAIN ord : ord[i] \in OrderFields
    OBVIOUS
  <2> QED
    BY <2>1 DEF OrderFields
<1>3. ASSUME NEW r \in Row, NEW i \in DOMAIN ord
      PROVE  r[ord[i].path] \in Int
  <2>1. Values \subseteq Int
    BY PaginationAssumption
  <2>2. r \in [Columns -> Values]
    BY DEF Row
  <2> QED
    BY <1>2, <2>1, <2>2
<1> QED
  BY <1>1, <1>2, <1>3 DEF IsOrder, IsKey, Key

\* Two rows of a table sort one way or the other under a keyed order.
LEMMA RowsComparable ==
    ASSUME NEW ord, Keyed(ord), NEW rows, rows \subseteq Row, UniqueKeys(rows),
           NEW r \in rows, NEW q \in rows, r # q
    PROVE  \/ SortsBefore(ord, Key(ord, r), Key(ord, q))
           \/ SortsBefore(ord, Key(ord, q), Key(ord, r))
<1>1. PICK p \in DOMAIN ord : ord[p].path = KeyColumn
  BY DEF Keyed, PathsOf
<1>2. Key(ord, r)[p] # Key(ord, q)[p]
  BY <1>1 DEF UniqueKeys, Key
<1>3. IsOrder(ord) /\ IsKey(ord, Key(ord, r)) /\ IsKey(ord, Key(ord, q))
  BY KeyedOrders DEF Keyed
<1> QED
  BY <1>2, <1>3, SortsBeforeTotal

\* An order_by a server accepts names columns and directions.
LEMMA ParsedOrder ==
    ASSUME KeyedSchemas, NEW s \in Servers, NEW spec \in OrderBys \cup {<<>>},
           ParseOrderBy(spec).err = OK,
           \A path \in PathsOf(ParseOrderBy(spec).fields) : Orderable(Schema[s], path)
    PROVE  ParseOrderBy(spec).fields \in Seq(OrderFields)
<1> DEFINE ob == ParseOrderBy(spec)
<1>1. /\ WellFormed(spec)
      /\ ob.fields = [i \in DOMAIN spec |->
                         [path |-> spec[i][1],
                          dir  |-> IF Len(spec[i]) = 2 THEN spec[i][2] ELSE Asc]]
  BY DEF ParseOrderBy, OK, ErrInvalidOrderBy
<1>2. \A i \in DOMAIN spec : ob.fields[i] \in OrderFields
  <2> TAKE i \in DOMAIN spec
  <2>1. ob.fields[i] = [path |-> spec[i][1],
                        dir  |-> IF Len(spec[i]) = 2 THEN spec[i][2] ELSE Asc]
    BY <1>1
  <2>2. spec[i][1] \in PathsOf(ob.fields)
    BY <1>1, <2>1 DEF PathsOf
  <2>3. spec[i][1] \in Columns
    BY <2>2 DEF Orderable, KeyedSchemas
  <2>4. Len(spec[i]) = 2 => spec[i][2] \in {Asc, Desc}
    BY <1>1 DEF WellFormed
  <2> QED
    BY <2>1, <2>3, <2>4 DEF OrderFields
<1> HIDE DEF ob
<1>3. spec \in Seq(Seq(STRING))
  BY DEF KeyedSchemas
<1>4. DOMAIN spec = 1..Len(spec) /\ Len(spec) \in Nat
  BY <1>3
<1>5. ob.fields = [i \in 1..Len(spec) |-> ob.fields[i]]
  BY <1>1, <1>4
<1>6. ob.fields \in Seq(OrderFields)
  BY <1>2, <1>4, <1>5, FunctionIsSeq
<1> QED
  BY <1>6 DEF ob

\* The order a server makes of an order_by it accepts is keyed.
LEMMA EffectiveOrderIsKeyed ==
    ASSUME KeyedSchemas, NEW s \in Servers, NEW spec \in OrderBys \cup {<<>>},
           EffectiveOrderBy(Schema[s], spec).err = OK
    PROVE  Keyed(EffectiveOrderBy(Schema[s], spec).fields)
<1> DEFINE ob   == ParseOrderBy(spec)
           base == IF ob.fields = <<>> THEN Schema[s].defaultOrder ELSE ob.fields
<1>1. /\ ob.err = OK
      /\ \A path \in PathsOf(ob.fields) : Orderable(Schema[s], path)
      /\ EffectiveOrderBy(Schema[s], spec).fields
           = AppendUniqueFields(base, Schema[s].tieBreaker)
  BY DEF EffectiveOrderBy, OK, ErrInvalidOrderBy
<1>2. base \in Seq(OrderFields)
  BY <1>1, ParsedOrder DEF KeyedSchemas
<1> HIDE DEF base
<1>3. Schema[s].tieBreaker \in Seq(OrderFields) /\ KeyColumn \in PathsOf(Schema[s].tieBreaker)
  BY DEF KeyedSchemas
<1> QED
  BY <1>1, <1>2, <1>3, AppendUniqueFieldsType DEF Keyed

\* A query under a keyed order and a limit returns the first rows in strict
\* order: all of them, or one more than fits on the page.
LEMMA QueryReturnsFirstRows ==
    ASSUME NEW ord, Keyed(ord), NEW rows, rows \subseteq Row, IsFiniteSet(rows),
           UniqueKeys(rows), NEW size \in Nat,
           NEW q \in QueryResults(ord, rows, size + 1)
    PROVE  /\ q \in Seq(rows) /\ Len(q) <= size + 1
           /\ \A i, j \in 1..Len(q) :
                 i < j => SortsBefore(ord, Key(ord, q[i]), Key(ord, q[j]))
           /\ Len(q) <= size => rows \subseteq Elements(q)
           /\ \A r \in rows \ Elements(q), i \in 1..Len(q) :
                 SortsBefore(ord, Key(ord, q[i]), Key(ord, r))
<1> DEFINE count == IF Cardinality(rows) < size + 1 THEN Cardinality(rows) ELSE size + 1
<1>1. Cardinality(rows) \in Nat
  BY FS_CardinalityType
<1>2. count \in Nat /\ count <= size + 1
  BY <1>1
<1>3. /\ q \in [1..count -> rows]
      /\ \A i, j \in 1..count :
            i < j => q[i] # q[j] /\ ~SortsBefore(ord, Key(ord, q[j]), Key(ord, q[i]))
      /\ \A r \in rows \ Elements(q), i \in 1..count :
            ~SortsBefore(ord, Key(ord, r), Key(ord, q[i]))
  BY DEF QueryResults
<1> HIDE DEF count
<1>4. q \in Seq(rows) /\ Len(q) = count
  BY <1>2, <1>3, SeqDef
<1>5. ASSUME NEW i \in 1..count, NEW j \in 1..count, i < j
      PROVE  SortsBefore(ord, Key(ord, q[i]), Key(ord, q[j]))
  BY <1>3, <1>5, RowsComparable
<1>6. ASSUME NEW r \in rows \ Elements(q), NEW i \in 1..count
      PROVE  SortsBefore(ord, Key(ord, q[i]), Key(ord, r))
  <2>1. q[i] \in rows /\ q[i] \in Elements(q)
    BY <1>3 DEF Elements
  <2> QED
    BY <1>3, <1>6, <2>1, RowsComparable
<1>7. ASSUME Len(q) <= size
      PROVE  rows \subseteq Elements(q)
  <2>1. count = Cardinality(rows)
    BY <1>1, <1>4, <1>7 DEF count
  <2>2. q \in Injection(1..count, rows)
    <3>1. \A i, j \in 1..count : q[i] = q[j] => i = j
      BY <1>2, <1>3
    <3> QED
      BY <1>3, <3>1 DEF Injection, IsInjective
  <2>3. Cardinality(1..count) = count
    BY <1>2, FS_Interval
  <2>4. q \in Surjection(1..count, rows)
    BY <2>1, <2>2, <2>3, FS_Injection
  <2> QED
    BY <1>3, <2>4 DEF Surjection, Elements
<1> QED
  BY <1>2, <1>4, <1>5, <1>6, <1>7

\* A valid schema never asks for an empty page.
LEMMA PageSizeIsPositive ==
    ASSUME NEW schema, NEW n \in Int,
           schema.defaultPageSize \in Int, schema.defaultPageSize >= 1,
           schema.maxPageSize \in Int, schema.maxPageSize >= 1
    PROVE  PageSize(schema, n) \in Nat \ {0}
BY DEF PageSize

\* What an accepted request asks for: a keyed order, a page of at least one row
\* and, if its token has an order, the cursor of that token in that same order.
LEMMA PlanOfAcceptedRequest ==
    ASSUME KeyedSchemas, NEW s \in Servers, NEW req, NEW time,
           req.orderBy \in OrderBys \cup {<<>>}, req.size \in Int,
           BuildPlan(Schema[s], req, time).err = OK
    PROVE  LET plan == BuildPlan(Schema[s], req, time) IN
           /\ Keyed(plan.order)
           /\ plan.size \in Nat \ {0}
           /\ req.token = <<>> => plan.vals = <<>>
           /\ req.token # <<>> /\ req.token[1].of # <<>> =>
                 /\ plan.order = req.token[1].of
                 /\ plan.vals = [i \in DOMAIN plan.order |-> req.token[1].cv[i].text]
<1> DEFINE effective == EffectiveOrderBy(Schema[s], req.orderBy)
           decoded   == DecodeToken(req.token)
           invalid   == ValidateToken(decoded.tok, Schema[s], req.filter, time)
           cursor    == DecodeCursorValues(Schema[s], decoded.tok, effective.fields)
           plan      == BuildPlan(Schema[s], req, time)
<1>1. /\ effective.err = OK /\ decoded.err = OK /\ invalid = OK /\ cursor.err = OK
      /\ plan.size = PageSize(Schema[s], req.size)
      /\ plan.order = effective.fields /\ plan.vals = cursor.vals
  BY DEF BuildPlan, OK, ErrInvalidOrderBy, ErrInvalidPageToken, ErrFilterMismatch
<1>2. Keyed(effective.fields)
  BY <1>1, EffectiveOrderIsKeyed
<1>3. PageSize(Schema[s], req.size) \in Nat \ {0}
  <2>1. /\ Schema[s].defaultPageSize \in Int /\ Schema[s].defaultPageSize >= 1
        /\ Schema[s].maxPageSize \in Int /\ Schema[s].maxPageSize >= 1
    BY PaginationAssumption DEF Validate
  <2> QED
    BY <2>1, PageSizeIsPositive
<1>4. decoded.tok = req.token
  BY <1>1 DEF DecodeToken, OK, ErrInvalidPageToken
<1>5. req.token = <<>> => cursor.vals = <<>>
  BY <1>4 DEF DecodeCursorValues, OK, ErrInvalidPageToken
<1>6. ASSUME req.token # <<>>, req.token[1].of # <<>>
      PROVE  /\ effective.fields = req.token[1].of
             /\ cursor.vals = [i \in DOMAIN effective.fields |-> req.token[1].cv[i].text]
  <2> DEFINE read == [i \in DOMAIN effective.fields |->
                        Decode(Schema[s].fields[effective.fields[i].path].kind,
                               req.token[1].cv[i])]
  <2>1. /\ effective.fields = req.token[1].of
        /\ cursor.vals = [i \in DOMAIN effective.fields |-> read[i].val]
    BY <1>1, <1>4, <1>6 DEF DecodeCursorValues, OK, ErrInvalidPageToken
  <2>2. \A i \in DOMAIN effective.fields : read[i].val = req.token[1].cv[i].text
    BY DEF Decode
  <2> QED
    BY <2>1, <2>2
<1> HIDE DEF effective, decoded, invalid, cursor
<1> HIDE DEF plan
<1>7. /\ Keyed(plan.order)
      /\ plan.size \in Nat \ {0}
      /\ req.token = <<>> => plan.vals = <<>>
      /\ req.token # <<>> /\ req.token[1].of # <<>> =>
            /\ plan.order = req.token[1].of
            /\ plan.vals = [i \in DOMAIN plan.order |-> req.token[1].cv[i].text]
  BY <1>1, <1>2, <1>3, <1>5, <1>6
<1> QED
  BY <1>7 DEF plan

\* A token holds the order and the values it was made of.
LEMMA EncodedToken ==
    ASSUME NEW schema, NEW vals, NEW ord, NEW filter, NEW time,
           NEW encoded, encoded = EncodeToken(schema, vals, ord, filter, time),
           encoded.err = OK
    PROVE  /\ encoded.str # <<>> /\ encoded.str = <<encoded.str[1]>>
           /\ encoded.str[1].of = ord
           /\ \A i \in DOMAIN ord : encoded.str[1].cv[i].text = vals[i]
<1> DEFINE cv  == [i \in DOMAIN ord |-> Encode(schema.fields[ord[i].path].kind, vals[i])]
           tok == [ct |-> time, rt |-> schema.resourceType, fh |-> hashFilter(filter),
                   cv |-> cv, of |-> ord]
<1>1. encoded.str = <<tok>>
  BY DEF EncodeToken, OK
<1>2. \A i \in DOMAIN ord : cv[i].text = vals[i]
  BY DEF Encode
<1> HIDE DEF cv
<1>3. tok.of = ord /\ tok.cv = cv
  OBVIOUS
<1> HIDE DEF tok
<1> QED
  BY <1>1, <1>2, <1>3

\* The rows a request asks for.
Asked(schema, req) ==
    { r \in Matching(schema.resourceType, req.filter) :
        Qualifies(BuildPlan(schema, req, now), r) }

\* A response without an error comes of a query that ran.
LEMMA AcceptedResponse ==
    ASSUME NEW schema, NEW req, NEW resp \in Responses(schema, req), resp.err = OK
    PROVE  LET plan == BuildPlan(schema, req, now) IN
           /\ plan.err = OK
           /\ ~(Limit(plan.size) < 0)
           /\ \E q \in QueryResults(plan.order, Asked(schema, req), Limit(plan.size)) :
                 LET next == NextPageToken(schema, plan, req, q) IN
                 /\ next.err = OK
                 /\ resp.rows = IF Len(q) > plan.size THEN SubSeq(q, 1, plan.size) ELSE q
                 /\ resp.next = next.str
<1> DEFINE plan == BuildPlan(schema, req, now)
           rows == Asked(schema, req)
           failed(err) == { [err |-> err, rows |-> <<>>, next |-> <<>>] }
           next(q) == NextPageToken(schema, plan, req, q)
           page(q) == IF Len(q) > plan.size THEN SubSeq(q, 1, plan.size) ELSE q
           response(q) == IF next(q).err # OK
                          THEN [err |-> next(q).err, rows |-> <<>>, next |-> <<>>]
                          ELSE [err |-> OK, rows |-> page(q), next |-> next(q).str]
<1>1. Responses(schema, req) =
         IF plan.err # OK THEN failed(plan.err)
         ELSE IF plan.vals # <<>> /\ ~Comparable(schema, plan.order)
              THEN failed(ErrInvalidPageToken)
         ELSE IF Limit(plan.size) < 0 THEN failed("query execution failed")
         ELSE { response(q) : q \in QueryResults(plan.order, rows, Limit(plan.size)) }
  BY DEF Responses, Asked
<1> DEFINE answers == { response(q) : q \in QueryResults(plan.order, rows, Limit(plan.size)) }
           stuck   == plan.vals # <<>> /\ ~Comparable(schema, plan.order)
<1>0. \A err : resp \in failed(err) => err = OK
  OBVIOUS
<1> HIDE DEF plan, rows, failed, response, stuck, answers
<1>2. plan.err = OK
  BY <1>0, <1>1 DEF stuck, answers
<1>3. ~stuck
  BY <1>0, <1>1, <1>2 DEF OK, ErrInvalidPageToken, stuck, answers
<1>4. ~(Limit(plan.size) < 0)
  BY <1>0, <1>1, <1>2, <1>3 DEF OK, stuck, answers
<1>5. PICK q \in QueryResults(plan.order, rows, Limit(plan.size)) : resp = response(q)
  BY <1>1, <1>2, <1>3, <1>4 DEF stuck
<1> USE DEF response
<1> HIDE DEF next, page
<1>6. next(q).err = OK /\ resp.rows = page(q) /\ resp.next = next(q).str
  BY <1>5
<1> QED
  BY <1>2, <1>4, <1>6 DEF plan, rows, next, page

\* An accepted request is answered with the first of the rows it asks for, in
\* strict order.  Without a next token they are all of them; with one, the token
\* is the cursor of the last row given and the rest sort after it.
LEMMA PageOfAcceptedRequest ==
    ASSUME KeyedSchemas, NEW s \in Servers, NEW req,
           req.orderBy \in OrderBys \cup {<<>>}, req.size \in Int,
           NEW rows, rows = Asked(Schema[s], req),
           rows \subseteq Row, IsFiniteSet(rows), UniqueKeys(rows),
           NEW ord, ord = BuildPlan(Schema[s], req, now).order,
           NEW resp \in Responses(Schema[s], req), resp.err = OK
    PROVE  /\ BuildPlan(Schema[s], req, now).err = OK
           /\ resp.rows \in Seq(rows)
           /\ \A i, j \in 1..Len(resp.rows) :
                 i < j => SortsBefore(ord, Key(ord, resp.rows[i]), Key(ord, resp.rows[j]))
           /\ resp.next = <<>> => rows \subseteq Elements(resp.rows)
           /\ resp.next # <<>> =>
                 /\ resp.rows # <<>>
                 /\ resp.next = <<resp.next[1]>>
                 /\ resp.next[1].of = ord
                 /\ \A i \in DOMAIN ord :
                       resp.next[1].cv[i].text = resp.rows[Len(resp.rows)][ord[i].path]
                 /\ \A r \in rows \ Elements(resp.rows) :
                       SortsBefore(ord, Key(ord, resp.rows[Len(resp.rows)]), Key(ord, r))
<1> DEFINE plan == BuildPlan(Schema[s], req, now)
           size == plan.size
<1>1. /\ plan.err = OK
      /\ Limit(size) >= 0
      /\ \E q \in QueryResults(plan.order, rows, Limit(size)) :
            LET next == NextPageToken(Schema[s], plan, req, q) IN
            /\ next.err = OK
            /\ resp.rows = IF Len(q) > size THEN SubSeq(q, 1, size) ELSE q
            /\ resp.next = next.str
  <2>1. plan.err = OK
    BY AcceptedResponse
  <2>2. Limit(size) \in Int
    <3>1. size \in Nat
      BY <2>1, PlanOfAcceptedRequest
    <3> QED
      BY <3>1, ListSchemaAssumption DEF Limit
  <2>3. ~(Limit(size) < 0)
    BY AcceptedResponse
  <2>4. \E q \in QueryResults(plan.order, Asked(Schema[s], req), Limit(size)) :
            LET next == NextPageToken(Schema[s], plan, req, q) IN
            /\ next.err = OK
            /\ resp.rows = IF Len(q) > size THEN SubSeq(q, 1, size) ELSE q
            /\ resp.next = next.str
    BY AcceptedResponse
  <2> QED
    BY <2>1, <2>2, <2>3, <2>4
<1>2. Keyed(ord) /\ size \in Nat \ {0}
  BY <1>1, PlanOfAcceptedRequest
<1>3. Limit(size) = size + 1
  BY <1>1, <1>2, ListSchemaAssumption DEF Limit
<1>4. PICK q \in QueryResults(ord, rows, size + 1) :
         LET next == NextPageToken(Schema[s], plan, req, q) IN
         /\ next.err = OK
         /\ resp.rows = IF Len(q) > size THEN SubSeq(q, 1, size) ELSE q
         /\ resp.next = next.str
  BY <1>1, <1>3
<1>5. /\ q \in Seq(rows) /\ Len(q) <= size + 1
      /\ \A i, j \in 1..Len(q) : i < j => SortsBefore(ord, Key(ord, q[i]), Key(ord, q[j]))
      /\ Len(q) <= size => rows \subseteq Elements(q)
      /\ \A r \in rows \ Elements(q), i \in 1..Len(q) :
            SortsBefore(ord, Key(ord, q[i]), Key(ord, r))
  BY <1>2, QueryReturnsFirstRows
<1>6. CASE Len(q) <= size
  <2>1. resp.rows = q /\ resp.next = <<>>
    BY <1>2, <1>4, <1>5, <1>6 DEF NextPageToken
  <2> QED
    BY <1>1, <1>5, <1>6, <2>1
<1>7. CASE Len(q) > size
  <2>1. Len(q) = size + 1 /\ DOMAIN q = 1..(size + 1)
    BY <1>2, <1>5, <1>7
  <2> DEFINE vals    == ExtractCursorValues(ord, q[size])
             encoded == EncodeToken(Schema[s], vals, ord, req.filter, now)
  <2>2. resp.rows = SubSeq(q, 1, size) /\ encoded.err = OK /\ resp.next = encoded.str
    BY <1>2, <1>4, <1>7, <2>1 DEF NextPageToken
  <2>3. /\ resp.rows \in Seq(rows) /\ Len(resp.rows) = size
        /\ \A i \in 1..size : resp.rows[i] = q[i]
    BY <1>2, <1>5, <2>1, <2>2
  <2>4. \A i \in DOMAIN ord : vals[i] = q[size][ord[i].path]
    BY DEF ExtractCursorValues, Key
  <2>5. /\ resp.next # <<>> /\ resp.next = <<resp.next[1]>>
        /\ resp.next[1].of = ord
        /\ \A i \in DOMAIN ord : resp.next[1].cv[i].text = q[size][ord[i].path]
    <3> HIDE DEF vals
    <3>1. /\ encoded.str # <<>> /\ encoded.str = <<encoded.str[1]>>
          /\ encoded.str[1].of = ord
          /\ \A i \in DOMAIN ord : encoded.str[1].cv[i].text = vals[i]
      BY <2>2, EncodedToken
    <3> HIDE DEF encoded
    <3> QED
      BY <2>2, <2>4, <3>1
  <2>6. ASSUME NEW r \in rows \ Elements(resp.rows)
        PROVE  SortsBefore(ord, Key(ord, q[size]), Key(ord, r))
    <3>1. CASE r \notin Elements(q)
      BY <1>2, <1>5, <2>1, <3>1
    <3>2. CASE r \in Elements(q)
      <4>1. PICK j \in 1..(size + 1) : q[j] = r
        BY <2>1, <3>2 DEF Elements
      <4>2. ~(j \in 1..size)
        BY <1>2, <2>3, <2>6, <4>1 DEF Elements
      <4>3. j = size + 1
        BY <1>2, <4>2
      <4> QED
        BY <1>2, <1>5, <2>1, <4>1, <4>3
    <3> QED
      BY <3>1, <3>2
  <2>7. \A i, j \in 1..Len(resp.rows) :
           i < j => SortsBefore(ord, Key(ord, resp.rows[i]), Key(ord, resp.rows[j]))
    BY <1>2, <1>5, <2>1, <2>3
  <2>8. resp.rows # <<>> /\ resp.rows[Len(resp.rows)] = q[size]
    BY <1>2, <2>3
  <2> QED
    BY <1>1, <2>3, <2>5, <2>6, <2>7, <2>8
<1> QED
  BY <1>2, <1>5, <1>6, <1>7

---------------------------------------------------------------------------
\* Rows in order followed by rows in order that sort after the last of them are
\* in order.
LEMMA OrderedPages ==
    ASSUME NEW ord, Keyed(ord), NEW old \in Seq(Row), NEW new \in Seq(Row),
           \A i, j \in 1..Len(old) :
              i < j => SortsBefore(ord, Key(ord, old[i]), Key(ord, old[j])),
           \A i, j \in 1..Len(new) :
              i < j => SortsBefore(ord, Key(ord, new[i]), Key(ord, new[j])),
           old # <<>> => \A i \in 1..Len(new) :
              SortsBefore(ord, Key(ord, old[Len(old)]), Key(ord, new[i])),
           NEW i \in 1..Len(old \o new), NEW j \in 1..Len(old \o new), i < j
    PROVE  SortsBefore(ord, Key(ord, (old \o new)[i]), Key(ord, (old \o new)[j]))
<1> DEFINE n == Len(old)
           m == Len(new)
           all == old \o new
<1>1. /\ n \in Nat /\ m \in Nat /\ Len(all) = n + m
      /\ \A k \in 1..n : all[k] = old[k] /\ old[k] \in Row
      /\ \A k \in (n + 1)..(n + m) : all[k] = new[k - n]
      /\ \A k \in 1..m : new[k] \in Row
  OBVIOUS
<1>2. IsOrder(ord) /\ \A r \in Row : IsKey(ord, Key(ord, r))
  BY KeyedOrders DEF Keyed
<1>3. n # 0 => old # <<>>
  OBVIOUS
<1> HIDE DEF n, m, all
<1>4. CASE j <= n
  <2>1. i \in 1..n /\ j \in 1..n /\ all[i] = old[i] /\ all[j] = old[j]
    BY <1>1, <1>4 DEF all
  <2> QED
    BY <2>1 DEF n, all
<1>5. CASE i > n
  <2>1. /\ i - n \in 1..m /\ j - n \in 1..m /\ i - n < j - n
        /\ all[i] = new[i - n] /\ all[j] = new[j - n]
    BY <1>1, <1>5 DEF all
  <2> QED
    BY <2>1 DEF m, all
<1>6. CASE i <= n /\ j > n
  <2>1. /\ i \in 1..n /\ j - n \in 1..m /\ n # 0 /\ n \in 1..n
        /\ all[i] = old[i] /\ all[j] = new[j - n]
    BY <1>1, <1>6 DEF all
  <2>2. SortsBefore(ord, Key(ord, old[n]), Key(ord, new[j - n]))
    BY <1>3, <2>1 DEF n, m
  <2>3. CASE i = n
    BY <2>1, <2>2, <2>3 DEF all
  <2>4. CASE i < n
    <3>1. SortsBefore(ord, Key(ord, old[i]), Key(ord, old[n]))
      BY <2>1, <2>4 DEF n
    <3>2. old[i] \in Row /\ old[n] \in Row /\ new[j - n] \in Row
      BY <1>1, <2>1
    <3>3. SortsBefore(ord, Key(ord, old[i]), Key(ord, new[j - n]))
      BY <1>2, <2>2, <3>1, <3>2, SortsBeforeTransitive
    <3> QED
      BY <2>1, <3>3 DEF all
  <2>5. i = n \/ i < n
    BY <1>1, <2>1
  <2> QED
    BY <2>3, <2>4, <2>5
<1> QED
  BY <1>1, <1>4, <1>5, <1>6 DEF all

\* The rows a page continues with are those after the last row seen; the first
\* page asks for every row that matches.
LEMMA AskedRows ==
    ASSUME KeyedSchemas, ListInv, NEW s \in Servers, NEW req,
           req.orderBy \in OrderBys \cup {<<>>}, req.size \in Int, req.token = token,
           NEW plan, plan = BuildPlan(Schema[s], req, now), plan.err = OK
    PROVE  /\ Keyed(plan.order)
           /\ token = <<>> => \A r : Qualifies(plan, r)
           /\ token # <<>> =>
                 /\ plan.order = order
                 /\ LastSeen \in Row
                 /\ \A r \in Row : Qualifies(plan, r)
                       <=> SortsBefore(order, Key(order, LastSeen), Key(order, r))
<1>1. /\ Keyed(plan.order)
      /\ token = <<>> => plan.vals = <<>>
      /\ token # <<>> /\ token[1].of # <<>> =>
            /\ plan.order = token[1].of
            /\ plan.vals = [i \in DOMAIN plan.order |-> token[1].cv[i].text]
  BY PlanOfAcceptedRequest
<1>2. CASE token = <<>>
  BY <1>1, <1>2 DEF Qualifies, KeysetCondition
<1>3. CASE token # <<>>
  <2>1. /\ seen # <<>> /\ seen \in Seq(Row) /\ order \in Seq(OrderFields)
        /\ token[1].of = order /\ KeyColumn \in PathsOf(order)
        /\ \A i \in DOMAIN order : token[1].cv[i].text = LastSeen[order[i].path]
    BY <1>3 DEF ListInv, TokenAtLast
  <2>2. Len(order) # 0 /\ order # <<>>
    BY <2>1 DEF PathsOf
  <2>3. plan.order = order
    BY <1>1, <1>3, <2>1, <2>2
  <2>4. plan.vals = Key(order, LastSeen)
    BY <1>1, <1>3, <2>1, <2>2, <2>3 DEF Key
  <2>5. LastSeen \in Row
    BY <2>1 DEF LastSeen
  <2>6. /\ IsOrder(order) /\ IsKey(order, plan.vals)
        /\ \A r \in Row : IsKey(order, Key(order, r))
    BY <2>1, <2>4, <2>5, KeyedOrders
  <2>7. plan.vals # <<>>
    <3>1. DOMAIN plan.vals = DOMAIN order
      BY <2>4 DEF Key
    <3>2. 1 \in DOMAIN order
      BY <2>1, <2>2
    <3> QED
      BY <3>1, <3>2
  <2>8. ASSUME NEW r \in Row
        PROVE  Qualifies(plan, r)
                  <=> SortsBefore(order, Key(order, LastSeen), Key(order, r))
    <3>1. KeysetCondition(order, plan.vals, Key(order, r))
             <=> SortsBefore(order, plan.vals, Key(order, r))
      BY <2>2, <2>6, <2>7, KeysetKeepsWhatSortsAfter
    <3> QED
      BY <2>3, <2>4, <3>1 DEF Qualifies
  <2> QED
    BY <1>1, <1>3, <2>3, <2>5, <2>8
<1> QED
  BY <1>2, <1>3

---------------------------------------------------------------------------
\* At the start nothing was seen and nothing is owed.
LEMMA InitListInv == Init => ListInv
<1> SUFFICES ASSUME Init PROVE ListInv
  OBVIOUS
<1>1. /\ tables \in [ResourceTypes -> SUBSET Row]
      /\ \A rt \in ResourceTypes : IsFiniteSet(tables[rt]) /\ UniqueKeys(tables[rt])
  BY PaginationAssumption DEF Init
<1>2. list.rt \in ResourceTypes /\ list.orderBy = <<>>
  <2>1. ResourceTypes # {}
    BY PaginationAssumption DEF ResourceTypes
  <2> QED
    BY <2>1 DEF Init
<1>3. /\ seen = <<>> /\ order = <<>> /\ token = <<>> /\ owed = {} /\ phase = "idle"
  BY DEF Init
<1>4. StrictlyOrdered /\ NothingSkipped
  BY <1>3 DEF StrictlyOrdered, NothingSkipped
<1> QED
  BY <1>1, <1>2, <1>3, <1>4 DEF ListInv

\* A page keeps the invariant: its rows follow those seen in strict order, its
\* token is the cursor of the last of them, and what is still owed follows.
LEMMA NextPageKeepsListInv ==
    ASSUME KeyedSchemas, ListInv,
           NEW s \in Servers, NEW size \in PageSizes, NextPage(s, size)
    PROVE  ListInv'
<1> DEFINE req == [size |-> size, filter |-> list.filter, orderBy |-> list.orderBy,
                   token |-> token]
           rows == Asked(Schema[s], req)
<1>1. PICK resp \in Responses(Schema[s], req) :
         IF resp.err # OK
         THEN phase' = "failed" /\ UNCHANGED <<order, token, seen, owed>>
         ELSE /\ phase' = IF resp.next = <<>> THEN "done" ELSE "listing"
              /\ order' = BuildPlan(Schema[s], req, now).order
              /\ token' = resp.next
              /\ seen' = seen \o resp.rows
              /\ owed' = owed \ Elements(resp.rows)
  BY DEF NextPage
<1>2. /\ phase = "listing" /\ Schema[s].resourceType = list.rt
      /\ UNCHANGED <<tables, list>>
  BY DEF NextPage
<1>3. /\ req.orderBy \in OrderBys \cup {<<>>} /\ req.size \in Int
      /\ req.token = token /\ req.filter = list.filter
  BY PaginationAssumption DEF ListInv
<1> HIDE DEF req
<1>4. Matching(list.rt, list.filter)' = Matching(list.rt, list.filter)
  BY <1>2 DEF Matching
<1>5. CASE resp.err # OK
  <2>1. phase' = "failed" /\ UNCHANGED <<tables, list, order, token, seen, owed>>
    BY <1>1, <1>2, <1>5
  <2>2. StrictlyOrdered' /\ NothingSkipped' /\ (token # <<>> => TokenAtLast')
    BY <2>1 DEF ListInv, StrictlyOrdered, NothingSkipped, TokenAtLast, LastSeen
  <2> QED
    BY <2>1, <2>2, <1>4 DEF ListInv
<1>6. CASE resp.err = OK
  <2> DEFINE ord == BuildPlan(Schema[s], req, now).order
  <2>1. /\ phase' = IF resp.next = <<>> THEN "done" ELSE "listing"
        /\ order' = ord /\ token' = resp.next /\ seen' = seen \o resp.rows
        /\ owed' = owed \ Elements(resp.rows)
    BY <1>1, <1>6
  <2>2. rows \subseteq Matching(list.rt, list.filter)
    BY <1>2, <1>3 DEF Asked
  <2>3. Matching(list.rt, list.filter) \subseteq tables[list.rt]
    BY DEF Matching
  <2>4. rows \subseteq Row /\ IsFiniteSet(rows) /\ UniqueKeys(rows)
    <3>1. /\ tables[list.rt] \subseteq Row /\ IsFiniteSet(tables[list.rt])
          /\ UniqueKeys(tables[list.rt])
      BY DEF ListInv
    <3>2. rows \subseteq tables[list.rt]
      BY <2>2, <2>3
    <3> HIDE DEF rows
    <3>3. IsFiniteSet(rows)
      BY <3>1, <3>2, FS_Subset
    <3> QED
      BY <3>1, <3>2, <3>3 DEF UniqueKeys
  <2>5. /\ BuildPlan(Schema[s], req, now).err = OK
        /\ resp.rows \in Seq(rows)
        /\ \A i, j \in 1..Len(resp.rows) :
              i < j => SortsBefore(ord, Key(ord, resp.rows[i]), Key(ord, resp.rows[j]))
        /\ resp.next = <<>> => rows \subseteq Elements(resp.rows)
        /\ resp.next # <<>> =>
              /\ resp.rows # <<>>
              /\ resp.next = <<resp.next[1]>>
              /\ resp.next[1].of = ord
              /\ \A i \in DOMAIN ord :
                    resp.next[1].cv[i].text = resp.rows[Len(resp.rows)][ord[i].path]
              /\ \A r \in rows \ Elements(resp.rows) :
                    SortsBefore(ord, Key(ord, resp.rows[Len(resp.rows)]), Key(ord, r))
    <3> HIDE DEF rows, ord
    <3> QED
      BY <1>3, <1>6, <2>4, PageOfAcceptedRequest DEF rows, ord
  <2>6. /\ Keyed(ord)
        /\ token = <<>> => \A r : Qualifies(BuildPlan(Schema[s], req, now), r)
        /\ token # <<>> =>
              /\ ord = order
              /\ LastSeen \in Row
              /\ \A r \in Row : Qualifies(BuildPlan(Schema[s], req, now), r)
                    <=> SortsBefore(order, Key(order, LastSeen), Key(order, r))
    BY <1>3, <2>5, AskedRows
  <2>7. owed \subseteq Matching(list.rt, list.filter) /\ owed \subseteq Row
    <3>1. tables[list.rt] \subseteq Row
      BY DEF ListInv
    <3> QED
      BY <2>3, <3>1 DEF ListInv
  <2>8. token # <<>> =>
           \A r \in owed : SortsBefore(order, Key(order, LastSeen), Key(order, r))
    BY DEF ListInv, TokenAtLast
  <2>9. owed \subseteq rows
    BY <1>2, <1>3, <2>6, <2>7, <2>8 DEF Asked
  <2>10. token = <<>> => seen = <<>>
    BY <1>2 DEF ListInv
  <2>11. \A r \in rows : token # <<>> =>
            SortsBefore(ord, Key(ord, LastSeen), Key(ord, r))
    BY <2>4, <2>6 DEF Asked
  <2> HIDE DEF rows, ord
  <2>12. resp.rows \in Seq(Row) /\ seen \in Seq(Row) /\ seen' \in Seq(Row)
    <3>1. resp.rows \in Seq(Row)
      BY <2>4, <2>5
    <3>2. seen \in Seq(Row)
      BY DEF ListInv
    <3> QED
      BY <2>1, <3>1, <3>2
  <2>13. \A i \in 1..Len(resp.rows) : resp.rows[i] \in rows
    BY <2>5
  <2>14. StrictlyOrdered'
    <3>1. \A i, j \in 1..Len(seen) :
             i < j => SortsBefore(ord, Key(ord, seen[i]), Key(ord, seen[j]))
      <4>1. CASE token = <<>>
        BY <2>10, <4>1
      <4>2. CASE token # <<>>
        BY <2>6, <4>2 DEF ListInv, StrictlyOrdered
      <4> QED
        BY <4>1, <4>2
    <3>2. seen # <<>> => \A i \in 1..Len(resp.rows) :
             SortsBefore(ord, Key(ord, seen[Len(seen)]), Key(ord, resp.rows[i]))
      BY <2>10, <2>11, <2>13 DEF LastSeen
    <3>3. \A i, j \in 1..Len(seen \o resp.rows) :
             i < j => SortsBefore(ord, Key(ord, (seen \o resp.rows)[i]),
                                       Key(ord, (seen \o resp.rows)[j]))
      BY <2>5, <2>6, <2>12, <3>1, <3>2, OrderedPages
    <3> QED
      BY <2>1, <3>3 DEF StrictlyOrdered
  <2>15. NothingSkipped'
    BY <2>1, <2>5, <2>9 DEF NothingSkipped
  <2>16. ASSUME token' # <<>>
         PROVE  TokenAtLast'
    <3>1. /\ resp.rows # <<>> /\ token' = <<token'[1]>> /\ token'[1].of = order'
          /\ \A i \in DOMAIN order' :
                token'[1].cv[i].text = resp.rows[Len(resp.rows)][order'[i].path]
          /\ \A r \in rows \ Elements(resp.rows) :
                SortsBefore(order', Key(order', resp.rows[Len(resp.rows)]), Key(order', r))
      BY <2>1, <2>5, <2>16
    <3>2. seen' # <<>> /\ LastSeen' = resp.rows[Len(resp.rows)]
      <4>1. /\ Len(seen') = Len(seen) + Len(resp.rows) /\ Len(resp.rows) # 0
            /\ Len(seen) \in Nat /\ Len(resp.rows) \in Nat
        BY <2>1, <2>12, <3>1
      <4>2. \A k \in 1..Len(resp.rows) : seen'[Len(seen) + k] = resp.rows[k]
        BY <2>1, <2>12
      <4>3. seen'[Len(seen')] = resp.rows[Len(resp.rows)]
        BY <4>1, <4>2
      <4> QED
        BY <4>1, <4>3 DEF LastSeen
    <3>3. KeyColumn \in PathsOf(order')
      BY <2>1, <2>6 DEF Keyed
    <3>4. \A r \in owed' : SortsBefore(order', Key(order', LastSeen'), Key(order', r))
      BY <2>1, <2>9, <3>1, <3>2
    <3> QED
      BY <3>1, <3>2, <3>3, <3>4 DEF TokenAtLast
  <2>17. /\ order' \in Seq(OrderFields)
         /\ owed' \subseteq Matching(list.rt, list.filter)'
         /\ phase' # "idle"
         /\ phase' = "listing" => token' # <<>>
    BY <1>4, <2>1, <2>6, <2>7 DEF Keyed
  <2>18. /\ \A rt \in ResourceTypes :
               tables'[rt] \subseteq Row /\ IsFiniteSet(tables'[rt]) /\ UniqueKeys(tables'[rt])
         /\ tables' = [rt \in ResourceTypes |-> tables'[rt]]
         /\ list'.rt \in ResourceTypes /\ list'.orderBy \in OrderBys \cup {<<>>}
    BY <1>2 DEF ListInv
  <2> QED
    BY <2>12, <2>14, <2>15, <2>16, <2>17, <2>18 DEF ListInv
<1> QED
  BY <1>5, <1>6

\* A write keeps the invariant: what is owed is still in the table and still
\* sorts after the last row seen.
LEMMA WriteKeepsListInv ==
    ASSUME ListInv, NEW rt \in ResourceTypes, NEW rows, rows \subseteq Row,
           IsFiniteSet(rows), Write(rt, rows)
    PROVE  ListInv'
<1>1. /\ UniqueKeys(rows)
      /\ tables' = [tables EXCEPT ![rt] = rows]
      /\ owed' = IF rt = list.rt THEN owed \cap rows ELSE owed
      /\ UNCHANGED <<phase, list, order, token, seen>>
  BY DEF Write
<1>2. tables = [t \in ResourceTypes |-> tables[t]] /\ list.rt \in ResourceTypes
  BY DEF ListInv
<1>3. \A t \in ResourceTypes : tables'[t] = IF t = rt THEN rows ELSE tables[t]
  BY <1>1, <1>2
<1>4. tables' = [t \in ResourceTypes |-> tables'[t]]
  BY <1>1, <1>2
<1>5. \A t \in ResourceTypes :
         tables'[t] \subseteq Row /\ IsFiniteSet(tables'[t]) /\ UniqueKeys(tables'[t])
  BY <1>1, <1>3 DEF ListInv
<1>6. owed' \subseteq owed
  BY <1>1
<1>7. owed' \subseteq Matching(list.rt, list.filter)'
  BY <1>1, <1>2, <1>3 DEF ListInv, Matching
<1>8. token # <<>> => TokenAtLast'
  BY <1>1, <1>6 DEF ListInv, TokenAtLast, LastSeen
<1>9. StrictlyOrdered' /\ NothingSkipped'
  BY <1>1, <1>6 DEF ListInv, StrictlyOrdered, NothingSkipped
<1> QED
  BY <1>1, <1>2, <1>4, <1>5, <1>7, <1>8, <1>9 DEF ListInv

\* Every step keeps the invariant.
LEMMA NextKeepsListInv ==
    ASSUME KeyedSchemas, ListInv, [Next]_vars
    PROVE  ListInv'
<1>1. ASSUME NEW rt \in ResourceTypes, NEW filter \in Filters, NEW orderBy \in OrderBys,
             StartList(rt, filter, orderBy)
      PROVE  ListInv'
  <2>1. /\ phase = "idle" /\ phase' = "listing"
        /\ list' = [rt |-> rt, filter |-> filter, orderBy |-> orderBy]
        /\ owed' = Matching(rt, filter)
        /\ UNCHANGED <<tables, order, token, seen>>
    BY <1>1 DEF StartList
  <2>2. seen = <<>> /\ token = <<>>
    BY <2>1 DEF ListInv
  <2>3. list'.rt = rt /\ list'.filter = filter /\ list'.orderBy = orderBy
    BY <2>1
  <2>4. owed' = Matching(list.rt, list.filter)'
    BY <2>1, <2>3 DEF Matching
  <2>5. StrictlyOrdered' /\ NothingSkipped'
    BY <2>1, <2>2 DEF StrictlyOrdered, NothingSkipped
  <2> QED
    BY <2>1, <2>2, <2>3, <2>4, <2>5 DEF ListInv
<1>2. ASSUME NEW s \in Servers, NEW size \in PageSizes, NextPage(s, size)
      PROVE  ListInv'
  BY <1>2, NextPageKeepsListInv
<1>3. ASSUME NEW rt \in ResourceTypes, NEW row \in Row, Insert(rt, row) \/ Delete(rt, row)
      PROVE  ListInv'
  <2>1. tables[rt] \subseteq Row /\ IsFiniteSet(tables[rt])
    BY DEF ListInv
  <2>2. IsFiniteSet(tables[rt] \cup {row}) /\ IsFiniteSet(tables[rt] \ {row})
    BY <2>1, FS_AddElement, FS_RemoveElement
  <2> QED
    BY <1>3, <2>1, <2>2, WriteKeepsListInv DEF Insert, Delete
<1>4. ASSUME NEW rt \in ResourceTypes, NEW row \in Row, NEW new \in Row,
             Update(rt, row, new)
      PROVE  ListInv'
  <2>1. tables[rt] \subseteq Row /\ IsFiniteSet(tables[rt])
    BY DEF ListInv
  <2>2. IsFiniteSet((tables[rt] \ {row}) \cup {new})
    BY <2>1, FS_AddElement, FS_RemoveElement
  <2> QED
    BY <1>4, <2>1, <2>2, WriteKeepsListInv DEF Update
<1>5. ASSUME UNCHANGED <<tables, client>>
      PROVE  ListInv'
  BY <1>5 DEF ListInv, client, StrictlyOrdered, NothingSkipped, TokenAtLast, LastSeen,
              Matching
<1> QED
  BY <1>1, <1>2, <1>3, <1>4, <1>5 DEF Next, AskNextPage, Tick, vars, client

\* Under schemas whose tie-breaker holds the unique key the invariant always holds.
THEOREM ListInvariant == ASSUME KeyedSchemas PROVE Spec => []ListInv
<1>1. Init => ListInv
  BY InitListInv
<1>2. ListInv /\ [Next]_vars => ListInv'
  BY NextKeepsListInv
<1> QED
  BY <1>1, <1>2, PTL DEF Spec

\* For any schemas with a keyed tie-breaker, any number of servers, rows, writes
\* and page sizes: a list hands out its rows in strict order
\* (buildKeysetCondition, buildNextPageToken).
THEOREM ListsAreStrictlyOrdered == ASSUME KeyedSchemas PROVE Spec => []StrictlyOrdered
<1>1. ListInv => StrictlyOrdered
  BY DEF ListInv
<1> QED
  BY <1>1, ListInvariant, PTL

\* Likewise, a list that ends without an error has skipped no row that matched
\* all along (ExecuteWithCondition page after page).
THEOREM ListsSkipNothing == ASSUME KeyedSchemas PROVE Spec => []NothingSkipped
<1>1. ListInv => NothingSkipped
  BY DEF ListInv
<1> QED
  BY <1>1, ListInvariant, PTL
===============================================================================
