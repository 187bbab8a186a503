---------------------------- MODULE GenerateProofs ----------------------------
(***************************************************************************)
(* For every set of sources: what a run of the generator keeps true of its    *)
(* plans, of the files it writes and of the database they make.               *)
(***************************************************************************)
EXTENDS Generate, TopoSortProofs

---------------------------------------------------------------------------
(* The statements of a DDL file *)

\* The implied indexes of a plan are sequences.
LEMMA ImpliedIndexes ==
    ASSUME NEW p \in ResourcePlan
    PROVE  /\ IsSeq(PathIndexes(p)) /\ IsSeq(GinIndexes(p)) /\ IsSeq(UniqueIndexes(p))
           /\ Range(UniqueIndexes(p)) =
                 { [name |-> UniqueName(p, c.name), column |-> c.name] :
                      c \in { d \in Range(p.columns) : d.unique } }
<1>1. /\ p.columns \in Seq(ColumnPlan) /\ p.oneofs \in Seq(OneofColumnPlan)
  BY DEF ResourcePlan
<1>2. /\ Len(p.columns) \in Nat /\ DOMAIN p.columns = 1..Len(p.columns)
      /\ Len(p.oneofs) \in Nat /\ DOMAIN p.oneofs = 1..Len(p.oneofs)
  BY <1>1, SeqIsSeq
<1>3. \A x : IsSeq(<<x>>) /\ Range(<<x>>) = {x}
  BY DEF IsSeq, Range
<1>4. IsSeq(<<>>) /\ Range(<<>>) = {}
  BY DEF IsSeq, Range
<1>5. IsSeq(GinIndexes(p))
  <2> DEFINE s == [k \in DOMAIN p.columns |->
                     LET c == p.columns[k]
                     IN IF c.gin THEN << [name |-> GinName(p, c.name), column |-> c.name] >>
                        ELSE <<>>]
  <2>1. \A k \in DOMAIN p.columns : IsSeq(s[k])
    BY <1>3, <1>4
  <2>2. DOMAIN s = DOMAIN p.columns /\ s = [k \in 1..Len(p.columns) |-> s[k]]
    BY <1>2
  <2>3. GinIndexes(p) = FlattenSeq(s)
    BY DEF GinIndexes
  <2> HIDE DEF s
  <2>4. IsSeq(s)
    BY <1>2, <2>2, FunctionIsASeq
  <2> QED
    BY <2>1, <2>2, <2>3, <2>4, FlattenSeqRange
<1>6. /\ IsSeq(UniqueIndexes(p))
      /\ Range(UniqueIndexes(p)) =
            { [name |-> UniqueName(p, c.name), column |-> c.name] :
                 c \in { d \in Range(p.columns) : d.unique } }
  <2> DEFINE entry(c) == [name |-> UniqueName(p, c.name), column |-> c.name]
             s == [k \in DOMAIN p.columns |->
                     LET c == p.columns[k]
                     IN IF c.unique
                        THEN << [name |-> UniqueName(p, c.name), column |-> c.name] >>
                        ELSE <<>>]
  <2>1. \A k \in DOMAIN p.columns :
           /\ IsSeq(s[k])
           /\ Range(s[k]) = IF p.columns[k].unique THEN {entry(p.columns[k])} ELSE {}
    BY <1>3, <1>4
  <2>2. DOMAIN s = DOMAIN p.columns /\ s = [k \in 1..Len(p.columns) |-> s[k]]
    BY <1>2
  <2>3. UniqueIndexes(p) = FlattenSeq(s)
    BY DEF UniqueIndexes
  <2> HIDE DEF s
  <2>4. IsSeq(s)
    BY <1>2, <2>2, FunctionIsASeq
  <2>5. /\ IsSeq(UniqueIndexes(p))
        /\ Range(UniqueIndexes(p)) = UNION { Range(s[k]) : k \in DOMAIN p.columns }
    BY <2>1, <2>2, <2>3, <2>4, FlattenSeqRange
  <2>6. UNION { Range(s[k]) : k \in DOMAIN p.columns } =
           { entry(c) : c \in { d \in Range(p.columns) : d.unique } }
    <3> HIDE DEF entry
    <3> QED
      BY <2>1 DEF Range
  <2> QED
    BY <2>5, <2>6
<1>7. IsSeq(PathIndexes(p))
  <2> DEFINE js == JSONColumns(p)
             f == [k \in DOMAIN p.columns |-> [name |-> p.columns[k].name,
                                               paths |-> p.columns[k].paths]]
             g == [k \in DOMAIN p.oneofs |-> [name |-> p.oneofs[k].base,
                                              paths |-> p.oneofs[k].paths]]
  <2>1. /\ f = [k \in 1..Len(p.columns) |-> f[k]]
        /\ g = [k \in 1..Len(p.oneofs) |-> g[k]]
        /\ js = f \o g
    BY <1>2 DEF JSONColumns
  <2>2. /\ \A k \in 1..Len(p.columns) : f[k].paths \in Seq(Seq(Words))
        /\ \A k \in 1..Len(p.oneofs) : g[k].paths \in Seq(Seq(Words))
    <3>1. \A k \in DOMAIN p.columns : p.columns[k] \in ColumnPlan
      BY <1>1, <1>2
    <3>2. \A k \in DOMAIN p.oneofs : p.oneofs[k] \in OneofColumnPlan
      BY <1>1, <1>2
    <3>3. \A k \in DOMAIN p.columns : p.columns[k].paths \in Seq(Seq(Words))
      BY <3>1 DEF ColumnPlan
    <3>4. \A k \in DOMAIN p.oneofs : p.oneofs[k].paths \in Seq(Seq(Words))
      BY <3>2 DEF OneofColumnPlan
    <3> QED
      BY <1>2, <3>3, <3>4
  <2> HIDE DEF f, g, js
  <2>3. IsSeq(js) /\ \A j \in Range(js) : j.paths \in Seq(Seq(Words))
    <3>1. IsSeq(f) /\ DOMAIN f = 1..Len(p.columns)
      BY <1>2, <2>1, FunctionIsASeq
    <3>2. IsSeq(g) /\ DOMAIN g = 1..Len(p.oneofs)
      BY <1>2, <2>1, FunctionIsASeq
    <3>3. IsSeq(js) /\ Range(js) = Range(f) \cup Range(g)
      BY <2>1, <3>1, <3>2, ConcatIsSeq
    <3> QED
      BY <2>2, <3>1, <3>2, <3>3 DEF Range
  <2> DEFINE s == [k \in DOMAIN js |->
                     LET c == js[k]
                     IN [l \in DOMAIN c.paths |->
                            [name |-> PathIndexName(p, c.name, c.paths[l]), column |-> c.name]]]
  <2>4. PathIndexes(p) = FlattenSeq(s)
    BY DEF PathIndexes, js
  <2>5. Len(js) \in Nat /\ DOMAIN js = 1..Len(js)
    BY <2>3, SeqIsSeq DEF IsSeq
  <2>6. DOMAIN s = DOMAIN js /\ s = [k \in 1..Len(js) |-> s[k]]
    BY <2>5
  <2>7. \A k \in DOMAIN js : IsSeq(s[k])
    <3> TAKE k \in DOMAIN js
    <3>1. js[k].paths \in Seq(Seq(Words))
      BY <2>3 DEF Range
    <3>2. Len(js[k].paths) \in Nat /\ DOMAIN js[k].paths = 1..Len(js[k].paths)
      BY <3>1, SeqIsSeq
    <3> DEFINE sk == s[k]
    <3>3. sk = [l \in 1..Len(js[k].paths) |-> sk[l]]
      BY <3>2
    <3> HIDE DEF sk
    <3>4. IsSeq(sk)
      BY <3>2, <3>3, FunctionIsASeq
    <3> QED
      BY <3>4 DEF sk
  <2> HIDE DEF s
  <2>8. IsSeq(s)
    BY <2>5, <2>6, FunctionIsASeq
  <2> QED
    BY <2>4, <2>6, <2>7, <2>8, FlattenSeqRange
<1> QED
  BY <1>5, <1>6, <1>7

\* The indexes of a plan, kind by kind.
LEMMA RenderedIndexes ==
    ASSUME NEW p \in ResourcePlan
    PROVE  /\ IsSeq(Supplementals(p)) /\ IsSeq(Indexes(p)) /\ IsSeq(UniqueColumnIndexes(p))
           /\ IsSeq(JSONBIndexes(p)) /\ IsSeq(ForeignKeyIndexes(p))
           /\ Range(Supplementals(p)) =
                 { CreateIndex(p, uq.name, uq.columns, TRUE, FALSE) : uq \in Range(p.supplementals) }
           /\ Range(Indexes(p)) =
                 { CreateIndex(p, x.name, x.columns, x.unique, x.where) : x \in Range(p.indexes) }
           /\ Range(UniqueColumnIndexes(p)) =
                 { CreateIndex(p, UniqueName(p, c.name), p.scope \o <<c.name>>, TRUE, FALSE) :
                      c \in { d \in Range(p.columns) : d.unique } }
           /\ \A x \in Range(JSONBIndexes(p)) :
                 x.op = "index" /\ x.table = p.table /\ ~x.unique
           /\ Range(ForeignKeyIndexes(p)) =
                 { CreateIndex(p, FKIndexName(p, fk.column), <<fk.column>>, FALSE, FALSE) :
                      fk \in { r \in Range(p.foreignKeys) : r.backing } }
<1>1. /\ p.supplementals \in Seq(SupplementalUniqueConstraint)
      /\ p.indexes \in Seq(IndexPlan) /\ p.foreignKeys \in Seq(ForeignKeyPlan)
  BY DEF ResourcePlan
<1>2. /\ Len(p.supplementals) \in Nat /\ DOMAIN p.supplementals = 1..Len(p.supplementals)
      /\ Len(p.indexes) \in Nat /\ DOMAIN p.indexes = 1..Len(p.indexes)
      /\ Len(p.foreignKeys) \in Nat /\ DOMAIN p.foreignKeys = 1..Len(p.foreignKeys)
  BY <1>1, SeqIsSeq
<1>3. /\ IsSeq(Supplementals(p))
      /\ Range(Supplementals(p)) =
            { CreateIndex(p, uq.name, uq.columns, TRUE, FALSE) : uq \in Range(p.supplementals) }
  <2> DEFINE f == Supplementals(p)
             entry(uq) == CreateIndex(p, uq.name, uq.columns, TRUE, FALSE)
  <2>1. f = [k \in DOMAIN p.supplementals |-> entry(p.supplementals[k])]
    BY DEF Supplementals
  <2> HIDE DEF f, entry
  <2>2. /\ DOMAIN f = DOMAIN p.supplementals /\ f = [k \in 1..Len(p.supplementals) |-> f[k]]
        /\ Range(f) = { entry(uq) : uq \in Range(p.supplementals) }
    BY <1>2, <2>1 DEF Range
  <2>3. IsSeq(f)
    BY <1>2, <2>2, FunctionIsASeq
  <2> QED
    BY <2>2, <2>3 DEF f, entry
<1>4. /\ IsSeq(Indexes(p))
      /\ Range(Indexes(p)) =
            { CreateIndex(p, x.name, x.columns, x.unique, x.where) : x \in Range(p.indexes) }
  <2> DEFINE f == Indexes(p)
             entry(x) == CreateIndex(p, x.name, x.columns, x.unique, x.where)
  <2>1. f = [k \in DOMAIN p.indexes |-> entry(p.indexes[k])]
    BY DEF Indexes
  <2> HIDE DEF f, entry
  <2>2. /\ DOMAIN f = DOMAIN p.indexes /\ f = [k \in 1..Len(p.indexes) |-> f[k]]
        /\ Range(f) = { entry(x) : x \in Range(p.indexes) }
    BY <1>2, <2>1 DEF Range
  <2>3. IsSeq(f)
    BY <1>2, <2>2, FunctionIsASeq
  <2> QED
    BY <2>2, <2>3 DEF f, entry
<1>5. /\ IsSeq(UniqueColumnIndexes(p))
      /\ Range(UniqueColumnIndexes(p)) =
            { CreateIndex(p, UniqueName(p, c.name), p.scope \o <<c.name>>, TRUE, FALSE) :
                 c \in { d \in Range(p.columns) : d.unique } }
  <2> DEFINE f == UniqueColumnIndexes(p)
             us == UniqueIndexes(p)
             entry(n, c) == CreateIndex(p, n, p.scope \o <<c>>, TRUE, FALSE)
  <2>1. f = [k \in DOMAIN us |-> entry(us[k].name, us[k].column)]
    BY DEF UniqueColumnIndexes
  <2>2. /\ IsSeq(us)
        /\ Range(us) = { [name |-> UniqueName(p, c.name), column |-> c.name] :
                            c \in { d \in Range(p.columns) : d.unique } }
    BY ImpliedIndexes
  <2> HIDE DEF f, us, entry
  <2>3. Len(us) \in Nat /\ DOMAIN us = 1..Len(us)
    BY <2>2, SeqIsSeq DEF IsSeq
  <2>4. /\ f = [k \in 1..Len(us) |-> f[k]]
        /\ Range(f) = { entry(u.name, u.column) : u \in Range(us) }
    BY <2>1, <2>3 DEF Range
  <2>5. IsSeq(f)
    BY <2>3, <2>4, FunctionIsASeq
  <2>6. Range(f) = { entry(UniqueName(p, c.name), c.name) :
                        c \in { d \in Range(p.columns) : d.unique } }
    <3> DEFINE made(c) == [name |-> UniqueName(p, c.name), column |-> c.name]
               C == { d \in Range(p.columns) : d.unique }
    <3>1. Range(us) = { made(c) : c \in C }
      BY <2>2
    <3>2. \A c \in C : made(c).name = UniqueName(p, c.name) /\ made(c).column = c.name
      OBVIOUS
    <3> HIDE DEF made, C
    <3>3. Range(f) = { entry(UniqueName(p, c.name), c.name) : c \in C }
      BY <2>4, <3>1, <3>2
    <3> QED
      BY <3>3 DEF C
  <2> QED
    BY <2>5, <2>6 DEF f, entry
<1>6. /\ IsSeq(JSONBIndexes(p))
      /\ \A x \in Range(JSONBIndexes(p)) : x.op = "index" /\ x.table = p.table /\ ~x.unique
  <2> DEFINE xs == PathIndexes(p) \o GinIndexes(p)
             f == JSONBIndexes(p)
  <2>1. f = [k \in DOMAIN xs |-> CreateIndex(p, xs[k].name, <<xs[k].column>>, FALSE, FALSE)]
    BY DEF JSONBIndexes
  <2>2. IsSeq(xs)
    BY ImpliedIndexes, ConcatIsSeq
  <2> HIDE DEF f, xs
  <2>3. Len(xs) \in Nat /\ DOMAIN xs = 1..Len(xs)
    BY <2>2, SeqIsSeq DEF IsSeq
  <2>4. f = [k \in 1..Len(xs) |-> f[k]]
    BY <2>1, <2>3
  <2>5. IsSeq(f)
    BY <2>3, <2>4, FunctionIsASeq
  <2>6. \A x \in Range(f) : x.op = "index" /\ x.table = p.table /\ ~x.unique
    BY <2>1 DEF Range, CreateIndex
  <2> QED
    BY <2>5, <2>6 DEF f
<1>7. /\ IsSeq(ForeignKeyIndexes(p))
      /\ Range(ForeignKeyIndexes(p)) =
            { CreateIndex(p, FKIndexName(p, fk.column), <<fk.column>>, FALSE, FALSE) :
                 fk \in { r \in Range(p.foreignKeys) : r.backing } }
  <2> DEFINE entry(fk) == CreateIndex(p, FKIndexName(p, fk.column), <<fk.column>>, FALSE, FALSE)
             s == [k \in DOMAIN p.foreignKeys |->
                     LET fk == p.foreignKeys[k]
                     IN IF fk.backing
                        THEN << CreateIndex(p, FKIndexName(p, fk.column), <<fk.column>>,
                                            FALSE, FALSE) >>
                        ELSE <<>>]
  <2>1. \A k \in DOMAIN p.foreignKeys :
           s[k] = IF p.foreignKeys[k].backing THEN <<entry(p.foreignKeys[k])>> ELSE <<>>
    OBVIOUS
  <2>2. DOMAIN s = DOMAIN p.foreignKeys /\ s = [k \in 1..Len(p.foreignKeys) |-> s[k]]
    BY <1>2
  <2>3. ForeignKeyIndexes(p) = FlattenSeq(s)
    BY DEF ForeignKeyIndexes
  <2> HIDE DEF s, entry
  <2>4. \A k \in DOMAIN p.foreignKeys :
           /\ IsSeq(s[k])
           /\ Range(s[k]) = IF p.foreignKeys[k].backing THEN {entry(p.foreignKeys[k])} ELSE {}
    <3>1. \A x : IsSeq(<<x>>) /\ Range(<<x>>) = {x}
      BY DEF IsSeq, Range
    <3>2. IsSeq(<<>>) /\ Range(<<>>) = {}
      BY DEF IsSeq, Range
    <3> QED
      BY <2>1, <3>1, <3>2
  <2>5. IsSeq(s)
    BY <1>2, <2>2, FunctionIsASeq
  <2>6. /\ IsSeq(ForeignKeyIndexes(p))
        /\ Range(ForeignKeyIndexes(p)) = UNION { Range(s[k]) : k \in DOMAIN p.foreignKeys }
    BY <2>2, <2>3, <2>4, <2>5, FlattenSeqRange
  <2>7. UNION { Range(s[k]) : k \in DOMAIN p.foreignKeys } =
           { entry(fk) : fk \in { r \in Range(p.foreignKeys) : r.backing } }
    BY <2>4 DEF Range
  <2> QED
    BY <2>6, <2>7 DEF entry
<1> QED
  BY <1>3, <1>4, <1>5, <1>6, <1>7

\* The file of a plan holds its table and its indexes.
LEMMA RenderedStatements ==
    ASSUME NEW p \in ResourcePlan
    PROVE  /\ IsSeq(RenderSchemaSQL(p))
           /\ Range(RenderSchemaSQL(p)) =
                 {CreateTable(p)} \cup Range(Supplementals(p)) \cup Range(Indexes(p))
                 \cup Range(UniqueColumnIndexes(p)) \cup Range(JSONBIndexes(p))
                 \cup Range(ForeignKeyIndexes(p))
<1> DEFINE a == <<CreateTable(p)>>
           b == Supplementals(p)
           c == Indexes(p)
           d == UniqueColumnIndexes(p)
           e == JSONBIndexes(p)
           f == ForeignKeyIndexes(p)
<1>1. RenderSchemaSQL(p) = a \o b \o c \o d \o e \o f
  BY DEF RenderSchemaSQL
<1>2. IsSeq(a) /\ Range(a) = {CreateTable(p)}
  BY DEF IsSeq, Range
<1>3. IsSeq(b) /\ IsSeq(c) /\ IsSeq(d) /\ IsSeq(e) /\ IsSeq(f)
  BY RenderedIndexes
<1> HIDE DEF a, b, c, d, e, f
<1>4. IsSeq(a \o b) /\ Range(a \o b) = Range(a) \cup Range(b)
  BY <1>2, <1>3, ConcatIsSeq
<1>5. IsSeq(a \o b \o c) /\ Range(a \o b \o c) = Range(a \o b) \cup Range(c)
  BY <1>3, <1>4, ConcatIsSeq
<1>6. IsSeq(a \o b \o c \o d) /\ Range(a \o b \o c \o d) = Range(a \o b \o c) \cup Range(d)
  BY <1>3, <1>5, ConcatIsSeq
<1>7. /\ IsSeq(a \o b \o c \o d \o e)
      /\ Range(a \o b \o c \o d \o e) = Range(a \o b \o c \o d) \cup Range(e)
  BY <1>3, <1>6, ConcatIsSeq
<1>8. /\ IsSeq(a \o b \o c \o d \o e \o f)
      /\ Range(a \o b \o c \o d \o e \o f) = Range(a \o b \o c \o d \o e) \cup Range(f)
  BY <1>3, <1>7, ConcatIsSeq
<1>9. Range(RenderSchemaSQL(p)) =
         {CreateTable(p)} \cup Range(b) \cup Range(c) \cup Range(d) \cup Range(e) \cup Range(f)
  BY <1>1, <1>2, <1>4, <1>5, <1>6, <1>7, <1>8
<1> QED
  BY <1>1, <1>8, <1>9 DEF b, c, d, e, f

\* Its table is the only one, and its indexes are the table's.
LEMMA OneTablePerFile ==
    ASSUME NEW p \in ResourcePlan
    PROVE  /\ TablesOf(Range(RenderSchemaSQL(p))) = {CreateTable(p)}
           /\ \A x \in Range(RenderSchemaSQL(p)) \ {CreateTable(p)} :
                 x.op = "index" /\ x.table = p.table
<1>1. \A x \in Range(RenderSchemaSQL(p)) \ {CreateTable(p)} :
         x.op = "index" /\ x.table = p.table
  <2>2. \A x \in Range(Supplementals(p)) : x.op = "index" /\ x.table = p.table
    <3>1. \A y : /\ CreateIndex(p, y.name, y.columns, TRUE, FALSE).op = "index"
                 /\ CreateIndex(p, y.name, y.columns, TRUE, FALSE).table = p.table
      BY DEF CreateIndex
    <3>2. Range(Supplementals(p)) =
             { CreateIndex(p, y.name, y.columns, TRUE, FALSE) :
                  y \in Range(p.supplementals) }
      BY RenderedIndexes
    <3> QED
      BY <3>1, <3>2
  <2>3. \A x \in Range(Indexes(p)) : x.op = "index" /\ x.table = p.table
    <3>1. \A y : /\ CreateIndex(p, y.name, y.columns, y.unique, y.where).op = "index"
                 /\ CreateIndex(p, y.name, y.columns, y.unique, y.where).table = p.table
      BY DEF CreateIndex
    <3>2. Range(Indexes(p)) =
             { CreateIndex(p, y.name, y.columns, y.unique, y.where) :
                  y \in Range(p.indexes) }
      BY RenderedIndexes
    <3> QED
      BY <3>1, <3>2
  <2>4. \A x \in Range(UniqueColumnIndexes(p)) : x.op = "index" /\ x.table = p.table
    <3>1. \A c : /\ CreateIndex(p, UniqueName(p, c.name), p.scope \o <<c.name>>, TRUE, FALSE).op = "index"
                 /\ CreateIndex(p, UniqueName(p, c.name), p.scope \o <<c.name>>, TRUE, FALSE).table = p.table
      BY DEF CreateIndex
    <3>2. Range(UniqueColumnIndexes(p)) =
             { CreateIndex(p, UniqueName(p, c.name), p.scope \o <<c.name>>, TRUE, FALSE) :
                  c \in { d \in Range(p.columns) : d.unique } }
      BY RenderedIndexes
    <3> QED
      BY <3>1, <3>2
  <2>5. \A x \in Range(ForeignKeyIndexes(p)) : x.op = "index" /\ x.table = p.table
    <3>1. \A fk : /\ CreateIndex(p, FKIndexName(p, fk.column), <<fk.column>>, FALSE, FALSE).op = "index"
                 /\ CreateIndex(p, FKIndexName(p, fk.column), <<fk.column>>, FALSE, FALSE).table = p.table
      BY DEF CreateIndex
    <3>2. Range(ForeignKeyIndexes(p)) =
             { CreateIndex(p, FKIndexName(p, fk.column), <<fk.column>>, FALSE, FALSE) :
                  fk \in { r \in Range(p.foreignKeys) : r.backing } }
      BY RenderedIndexes
    <3> QED
      BY <3>1, <3>2
  <2>6. \A x \in Range(JSONBIndexes(p)) : x.op = "index" /\ x.table = p.table
    BY RenderedIndexes
  <2> QED
    BY <2>2, <2>3, <2>4, <2>5, <2>6, RenderedStatements
<1>2. CreateTable(p).op = "table" /\ CreateTable(p) \in Range(RenderSchemaSQL(p))
  BY RenderedStatements DEF CreateTable
<1> QED
  BY <1>1, <1>2 DEF TablesOf

---------------------------------------------------------------------------
(* Foreign keys *)

\* What the completion of foreign keys leaves alone.
SameDeclaration(p, m) ==
    /\ p.fqn = m.fqn /\ p.dir = m.dir /\ p.file = m.file /\ p.table = m.table
    /\ p.scope = m.scope /\ p.columns = m.columns /\ p.oneofs = m.oneofs
    /\ p.primaryKey = m.primaryKey /\ p.partition = m.partition
    /\ p.defaultOrder = m.defaultOrder /\ p.tieBreaker = m.tieBreaker
    /\ p.indexes = m.indexes
    /\ Len(p.foreignKeys) = Len(m.foreignKeys)

\* No two plans are of one message.
DistinctMessages(plans) ==
    \A k, l \in DOMAIN plans : plans[k].fqn = plans[l].fqn => k = l

\* A plan with other foreign keys, or with other supplemental uniques.
LEMMA ChangedPlan ==
    ASSUME NEW p \in ResourcePlan
    PROVE  /\ \A sup \in Seq(SupplementalUniqueConstraint) :
                 /\ [p EXCEPT !.supplementals = sup] \in ResourcePlan
                 /\ SameDeclaration([p EXCEPT !.supplementals = sup], p)
                 /\ [p EXCEPT !.supplementals = sup].foreignKeys = p.foreignKeys
                 /\ [p EXCEPT !.supplementals = sup].supplementals = sup
           /\ \A fks \in Seq(ForeignKeyPlan) : Len(fks) = Len(p.foreignKeys) =>
                 /\ [p EXCEPT !.foreignKeys = fks] \in ResourcePlan
                 /\ SameDeclaration([p EXCEPT !.foreignKeys = fks], p)
                 /\ [p EXCEPT !.foreignKeys = fks].foreignKeys = fks
                 /\ [p EXCEPT !.foreignKeys = fks].supplementals = p.supplementals
<1>1. ASSUME NEW sup \in Seq(SupplementalUniqueConstraint)
      PROVE  /\ [p EXCEPT !.supplementals = sup] \in ResourcePlan
             /\ SameDeclaration([p EXCEPT !.supplementals = sup], p)
             /\ [p EXCEPT !.supplementals = sup].foreignKeys = p.foreignKeys
             /\ [p EXCEPT !.supplementals = sup].supplementals = sup
  BY DEF ResourcePlan, SameDeclaration
<1>2. ASSUME NEW fks \in Seq(ForeignKeyPlan), Len(fks) = Len(p.foreignKeys)
      PROVE  /\ [p EXCEPT !.foreignKeys = fks] \in ResourcePlan
             /\ SameDeclaration([p EXCEPT !.foreignKeys = fks], p)
             /\ [p EXCEPT !.foreignKeys = fks].foreignKeys = fks
             /\ [p EXCEPT !.foreignKeys = fks].supplementals = p.supplementals
  BY <1>2 DEF ResourcePlan, SameDeclaration
<1> QED
  BY <1>1, <1>2

\* The types of what a reference to a target is made into, and of its uniques.
LEMMA CompletedTypes ==
    ASSUME NEW p \in ResourcePlan, NEW fk \in ForeignKeyPlan, NEW target \in ResourcePlan,
           NEW c \in ColumnPlan, Scoped(p) = Scoped(target)
    PROVE  /\ Completed(p, fk, target, c) \in ForeignKeyPlan
           /\ Referenced(target, c).supplementals \in Seq(SupplementalUniqueConstraint)
<1>1. /\ p.scope \in Seq(Words) /\ target.scope \in Seq(Words) /\ target.table \in Words
      /\ target.supplementals \in Seq(SupplementalUniqueConstraint)
      /\ c.name \in Words /\ fk.column \in Words
  BY DEF ResourcePlan, ColumnPlan, ForeignKeyPlan
<1>2. Scoped(p) => p.scope[1] \in Words /\ target.scope[1] \in Words
  BY <1>1, EmptySeq, ElementOfSeq DEF Scoped
<1>3. ASSUME NEW b \in BOOLEAN
      PROVE  [fk EXCEPT
                !.table = target.table,
                !.target = IF Scoped(p) THEN <<target.scope[1], c.name>> ELSE <<c.name>>,
                !.local = IF Scoped(p) THEN <<p.scope[1], fk.column>> ELSE <<fk.column>>,
                !.backing = b] \in ForeignKeyPlan
  <2> DEFINE t == IF Scoped(p) THEN <<target.scope[1], c.name>> ELSE <<c.name>>
             l == IF Scoped(p) THEN <<p.scope[1], fk.column>> ELSE <<fk.column>>
  <2>1. t \in Seq(Words) /\ l \in Seq(Words)
    BY <1>1, <1>2
  <2> HIDE DEF t, l
  <2>2. [fk EXCEPT !.table = target.table, !.target = t, !.local = l, !.backing = b]
           \in ForeignKeyPlan
    BY <1>1, <2>1 DEF ForeignKeyPlan
  <2> QED
    BY <2>2 DEF t, l
<1>4. Completed(p, fk, target, c) \in ForeignKeyPlan
  <2>1. (fk.backing /\ ~ColumnAlreadyCovered(p, fk.column)) \in BOOLEAN
    BY DEF ForeignKeyPlan
  <2> QED
    BY <1>3, <2>1 DEF Completed
<1>5. Referenced(target, c).supplementals \in Seq(SupplementalUniqueConstraint)
  <2> DEFINE uq == [name |-> SupplementalName(target, c.name),
                    columns |-> <<target.scope[1], c.name>>]
             sup == AddSupplementalUnique(target.supplementals, uq)
  <2>1. CASE Scoped(target)
    <3>1. target.scope[1] \in Words
      BY <1>2, <2>1
    <3>2. SupplementalName(target, c.name) \in Words
      <4> DEFINE uq0 == <<"uq">>
                 tenant == target.scope[1]
      <4>1. uq0 \in Words
        <5>1. \A S : \A x \in S : <<x>> \in Seq(S)
          OBVIOUS
        <5> QED
          BY <5>1, UniquePrefixAssumption DEF Words
      <4>2. SupplementalName(target, c.name) = uq0 \o target.table \o tenant \o c.name
        BY DEF SupplementalName
      <4> HIDE DEF uq0, tenant
      <4> QED
        BY <1>1, <3>1, <4>1, <4>2, ConcatProperties DEF Words, tenant
    <3>3. uq \in SupplementalUniqueConstraint
      BY <1>1, <3>1, <3>2 DEF SupplementalUniqueConstraint
    <3> HIDE DEF uq
    <3>4. sup \in Seq(SupplementalUniqueConstraint)
      BY <1>1, <3>3 DEF AddSupplementalUnique
    <3>5. [target EXCEPT !.supplementals = sup].supplementals = sup
      BY DEF ResourcePlan
    <3> QED
      BY <1>1, <3>4, <3>5 DEF Referenced, uq
  <2>2. CASE ~Scoped(target)
    BY <1>1, <2>2 DEF Referenced
  <2> QED
    BY <2>1, <2>2
<1> QED
  BY <1>4, <1>5

\* Foreign key j of plan i is completed by its target, which gets a unique.
KeyCompleted(new, plans, i, j) ==
    \E k \in Targets(plans, plans[i].foreignKeys[j]) :
    \E c \in TargetColumns(plans[k], plans[i].foreignKeys[j]) :
        /\ Scoped(plans[i]) = Scoped(plans[k])
        /\ new[i].foreignKeys[j] = Completed(plans[i], plans[i].foreignKeys[j], plans[k], c)
        /\ \A l \in DOMAIN plans :
              new[l].supplementals = IF l = k THEN Referenced(plans[k], c).supplementals
                                     ELSE plans[l].supplementals

\* A step of the completion completes a foreign key, and nothing else changes.
LEMMA CompletionOfAKey ==
    ASSUME NEW plans \in Seq(ResourcePlan), DistinctMessages(plans),
           NEW i \in DOMAIN plans, NEW j \in DOMAIN plans[i].foreignKeys,
           NEW new, new = CompleteFK(plans, i, j)
    PROVE  /\ new \in Seq(ResourcePlan) /\ Len(new) = Len(plans)
           /\ \A l \in DOMAIN plans :
                 /\ SameDeclaration(new[l], plans[l])
                 /\ \A n \in DOMAIN plans[l].foreignKeys : l # i \/ n # j =>
                       new[l].foreignKeys[n] = plans[l].foreignKeys[n]
           /\ Resolvable(plans, plans[i], plans[i].foreignKeys[j]) => KeyCompleted(new, plans, i, j)
<1> DEFINE p == plans[i]
           fk == p.foreignKeys[j]
<1>1. \A l \in DOMAIN plans :
         /\ plans[l] \in ResourcePlan
         /\ plans[l].foreignKeys \in Seq(ForeignKeyPlan)
         /\ plans[l].columns \in Seq(ColumnPlan)
  <2>1. \A l \in DOMAIN plans : plans[l] \in ResourcePlan
    OBVIOUS
  <2> QED
    BY <2>1 DEF ResourcePlan
<1>2. fk \in ForeignKeyPlan
  BY <1>1
<1>3. CASE ~Resolvable(plans, p, fk)
  <2>1. new = plans
    BY <1>3 DEF CompleteFK
  <2> QED
    BY <1>3, <2>1 DEF SameDeclaration
<1>4. CASE Resolvable(plans, p, fk)
  <2> DEFINE k == CHOOSE k \in Targets(plans, fk) : TRUE
             c == CHOOSE c \in TargetColumns(plans[k], fk) : TRUE
             done == Completed(p, fk, plans[k], c)
             sup == Referenced(plans[k], c).supplementals
  <2>1. new = [plans EXCEPT ![i].foreignKeys[j] = done, ![k].supplementals = sup]
    BY <1>4 DEF CompleteFK
  <2>2. /\ k \in Targets(plans, fk) /\ k \in DOMAIN plans
        /\ c \in TargetColumns(plans[k], fk)
        /\ Scoped(p) = Scoped(plans[k])
    <3>1. PICK k1 \in Targets(plans, fk) :
             Scoped(p) = Scoped(plans[k1]) /\ TargetColumns(plans[k1], fk) # {}
      BY <1>4 DEF Resolvable
    <3>2. k = k1
      BY <3>1 DEF Targets, DistinctMessages
    <3> QED
      BY <3>1, <3>2 DEF Targets
  <2> HIDE DEF k, c, fk, p
  <2>3. c \in ColumnPlan
    BY <1>1, <2>2 DEF TargetColumns, Range
  <2>4. done \in ForeignKeyPlan /\ sup \in Seq(SupplementalUniqueConstraint)
    BY <1>1, <1>2, <2>2, <2>3, CompletedTypes DEF p
  <2> HIDE DEF done, sup
  <2> DEFINE fks == [plans[i].foreignKeys EXCEPT ![j] = done]
             mid == [plans[i] EXCEPT !.foreignKeys = fks]
  <2>5. /\ fks \in Seq(ForeignKeyPlan) /\ Len(fks) = Len(plans[i].foreignKeys)
        /\ fks[j] = done
        /\ \A n \in DOMAIN plans[i].foreignKeys : n # j => fks[n] = plans[i].foreignKeys[n]
    BY <1>1, <2>4
  <2>6. mid \in ResourcePlan /\ mid.foreignKeys = fks /\ mid.supplementals = plans[i].supplementals
        /\ SameDeclaration(mid, plans[i])
    <3> HIDE DEF fks
    <3>1. plans[i] \in ResourcePlan
      BY <1>1
    <3> QED
      BY <2>5, <3>1, ChangedPlan
  <2>7. ASSUME NEW l \in DOMAIN plans
        PROVE  /\ new[l] \in ResourcePlan
               /\ SameDeclaration(new[l], plans[l])
               /\ new[l].foreignKeys = IF l = i THEN fks ELSE plans[l].foreignKeys
               /\ new[l].supplementals = IF l = k THEN sup ELSE plans[l].supplementals
    <3> DEFINE was == IF l = i THEN mid ELSE plans[l]
    <3>1. new[l] = IF l = k THEN [was EXCEPT !.supplementals = sup] ELSE was
      BY <2>1, <2>2
    <3>2. /\ was \in ResourcePlan /\ SameDeclaration(was, plans[l])
          /\ was.foreignKeys = IF l = i THEN fks ELSE plans[l].foreignKeys
          /\ was.supplementals = plans[l].supplementals
      <4> HIDE DEF mid, fks
      <4> QED
        BY <1>1, <2>6 DEF SameDeclaration
    <3> HIDE DEF was, fks
    <3>3. CASE l # k
      BY <3>1, <3>2, <3>3
    <3>4. CASE l = k
      <4>1. /\ [was EXCEPT !.supplementals = sup] \in ResourcePlan
            /\ SameDeclaration([was EXCEPT !.supplementals = sup], was)
            /\ [was EXCEPT !.supplementals = sup].foreignKeys = was.foreignKeys
            /\ [was EXCEPT !.supplementals = sup].supplementals = sup
        BY <2>4, <3>2, ChangedPlan
      <4>2. SameDeclaration(new[l], plans[l])
        BY <3>1, <3>2, <3>4, <4>1 DEF SameDeclaration
      <4> QED
        BY <3>1, <3>2, <3>4, <4>1, <4>2
    <3> QED
      BY <3>3, <3>4
  <2>8. new \in Seq(ResourcePlan) /\ Len(new) = Len(plans)
    <3>1. new = [l \in 1..Len(plans) |-> new[l]] /\ Len(plans) \in Nat /\ DOMAIN plans = 1..Len(plans)
      BY <2>1, LenProperties
    <3>2. new \in [1..Len(plans) -> ResourcePlan]
      BY <2>7, <3>1
    <3> QED
      BY <3>1, <3>2, SeqDef
  <2> HIDE DEF fks
  <2>9. new[i].foreignKeys[j] = done
    BY <2>5, <2>7
  <2>10. \A l \in DOMAIN plans : \A n \in DOMAIN plans[l].foreignKeys : l # i \/ n # j =>
            new[l].foreignKeys[n] = plans[l].foreignKeys[n]
    BY <2>5, <2>7
  <2> QED
    <3>1. KeyCompleted(new, plans, i, j)
      BY <2>2, <2>7, <2>9 DEF p, fk, done, sup, KeyCompleted
    <3> QED
      BY <2>7, <2>8, <2>10, <3>1
<1> QED
  BY <1>3, <1>4

---------------------------------------------------------------------------
(* The invariant of the runs *)

\* done is what a run makes of foreign key fk of message m, one of ms.
CompletionOf(ms, m, fk, done) ==
    \E q \in Range(ms) : \E c \in TargetColumns(q, fk) :
        /\ q.fqn = fk.message
        /\ Scoped(m) = Scoped(q)
        /\ done = Completed(m, fk, q, c)

\* The unique a reference to column c of message m needs.
Supplemental(m, c) ==
    [name |-> SupplementalName(m, c.name), columns |-> <<m.scope[1], c.name>>]

\* The columns of message k of ms that need one for the foreign keys of K, which
\* are pairs of a place in ms and a place in the message's foreign keys.
Wanted(ms, K, k) ==
    { c \in Range(ms[k].columns) :
        /\ Scoped(ms[k]) /\ ~SynthesizedColumn(c) /\ ~c.unique
        /\ ~TargetPKCoversTenantComposite(ms[k], c.name)
        /\ \E a \in DOMAIN ms : \E b \in DOMAIN ms[a].foreignKeys :
              /\ <<a, b>> \in K
              /\ ms[a].foreignKeys[b].message = ms[k].fqn
              /\ ms[a].foreignKeys[b].field = c.field }

\* The uniques uqs are those the columns C of message m need, each of them once.
HasSupplementals(uqs, m, C) ==
    /\ Range(uqs) = { Supplemental(m, c) : c \in C }
    /\ \A k, l \in DOMAIN uqs : uqs[k] = uqs[l] => k = l

\* The foreign keys in K are completed in the plans, the others are as the messages
\* declare them, and the uniques are those that the foreign keys in K need.
Completes(plans, ms, K) ==
    \A k \in DOMAIN ms :
        /\ \A b \in DOMAIN ms[k].foreignKeys :
              IF <<k, b>> \in K
              THEN CompletionOf(ms, ms[k], ms[k].foreignKeys[b], plans[k].foreignKeys[b])
              ELSE plans[k].foreignKeys[b] = ms[k].foreignKeys[b]
        /\ HasSupplementals(plans[k].supplementals, ms[k], Wanted(ms, K, k))

AllKeys == Nat \X Nat

\* Plan p is what a run makes of message i of ms.
MadeOf(p, ms, i) ==
    /\ p \in ResourcePlan
    /\ SameDeclaration(p, ms[i])
    /\ ValidPlan(ms[i])
    /\ \A b \in DOMAIN ms[i].foreignKeys :
          CompletionOf(ms, ms[i], ms[i].foreignKeys[b], p.foreignKeys[b])
    /\ HasSupplementals(p.supplementals, ms[i], Wanted(ms, AllKeys, i))

\* The foreign keys this run has completed.
PassedKeys ==
    IF stage = "references"
    THEN { ab \in AllKeys : ab[1] < at \/ (ab[1] = at /\ ab[2] < atKey) }
    ELSE AllKeys

\* The loops and what has gone through them.
RunInv ==
    /\ runs \in 0..MaxRuns
    /\ stage \in {"idle", "resolve", "references", "emit", "apply", "done", "failed"}
    /\ messages \in Sources \cup {<<>>}
    /\ pending \in Seq(ResourcePlan)
    /\ Len(pending) <= Len(messages)
    /\ at \in Nat \ {0} /\ atKey \in Nat \ {0}
    /\ runs = 0 => stage = "idle"
    /\ stage \in {"idle", "done"} => at = 1
    /\ stage = "resolve" =>
          /\ at <= Len(messages) + 1
          /\ Len(pending) <= at - 1
          /\ atKey = 1
          /\ errors = {} => /\ Len(pending) = at - 1
                            /\ \A k \in DOMAIN pending :
                                  pending[k] = messages[k] /\ ValidPlan(messages[k])
    /\ stage \in {"references", "emit"} => at <= Len(pending) + 1
    /\ stage = "references" /\ at <= Len(pending) =>
          atKey <= Len(pending[at].foreignKeys) + 1

\* Once every message is resolved there is a plan for each, and nothing but its
\* references is added to it.
PlansInv ==
    stage \in {"references", "emit", "apply", "done"} =>
        /\ Len(pending) = Len(messages)
        /\ \A k \in DOMAIN messages :
              SameDeclaration(pending[k], messages[k]) /\ ValidPlan(messages[k])

\* As long as no reference has failed, those passed are completed, those not passed
\* are as declared, and the uniques are those the passed ones need.
KeysInv ==
    stage \in {"emit", "apply", "done"} \/ (stage = "references" /\ errors = {}) =>
        Completes(pending, messages, PassedKeys)

\* Every file is that of a message that some run was given; if there is only one
\* run, it is that run.
FileMadeBy(path, ms) ==
    \E i \in DOMAIN ms : \E p \in ResourcePlan :
        MadeOf(p, ms, i) /\ path = PathOf(p) /\ disk[path] = RenderSchemaSQL(p)

DiskInv ==
    /\ IsFiniteSet(DOMAIN disk)
    /\ disk = [path \in DOMAIN disk |-> disk[path]]
    /\ \A path \in DOMAIN disk : \E ms \in Sources :
          FileMadeBy(path, ms) /\ (MaxRuns <= 1 => ms = messages)
    /\ runs = 0 => disk = <<>>

\* The database is made of whole files of directory d.
MadeOfFiles(d) ==
    \A s \in db : \E path \in DOMAIN disk :
        path.dir = d /\ s \in Range(disk[path]) /\ Range(disk[path]) \subseteq db

\* The directories left are those of plans; the sorter has the files of the first
\* one, and the database is made of them.
ApplyInv ==
    /\ dirs \subseteq { p.dir : p \in Range(pending) }
    /\ stage = "apply" => dirs # {}
    /\ stage \in {"idle", "resolve", "references", "emit", "done"} => dirs = {}
    /\ status # "idle" => stage \in {"apply", "failed"}
    /\ status = "sorting" => stage = "apply"
    /\ stage = "apply" /\ status # "idle" => Len(files) = Len(Discovered(ThisDir))
    /\ stage = "apply" /\ status # "sorted" => at = 1
    /\ stage \in {"apply", "failed"} => at <= Len(out) + 1
    /\ stage \in {"idle", "resolve", "references", "emit"} => db = {}
    /\ \A t, u \in TablesOf(db) : t.name = u.name => t = u
    /\ db # {} => \E d \in { p.dir : p \in Range(pending) } : MadeOfFiles(d)
    /\ stage = "apply" /\ status # "idle" => MadeOfFiles(ThisDir)

GenInv == TopoInv /\ RunInv /\ PlansInv /\ KeysInv /\ DiskInv /\ ApplyInv

\* What protoc hands over, message by message.
LEMMA RequestFacts ==
    ASSUME NEW ms \in Sources \cup {<<>>}
    PROVE  /\ ms \in Seq(ResourcePlan) /\ Len(ms) \in Nat /\ DOMAIN ms = 1..Len(ms)
           /\ DistinctMessages(ms)
           /\ \A k \in DOMAIN ms :
                 /\ ms[k] \in ResourcePlan /\ ms[k].dir \in Nat
                 /\ ms[k].table \in Tables /\ ms[k].supplementals = <<>>
                 /\ ms[k].columns \in Seq(ColumnPlan)
                 /\ ms[k].foreignKeys \in Seq(ForeignKeyPlan)
                 /\ ms[k].scope \in Seq(Words)
                 /\ \A c, d \in Range(ms[k].columns) :
                       c.field = d.field /\ ~SynthesizedColumn(c) => c = d
                 /\ \A fk \in Range(ms[k].foreignKeys) :
                       \E c \in Range(ms[k].columns) : c.name = fk.column
<1>1. CASE ms = <<>>
  BY <1>1 DEF DistinctMessages
<1>2. CASE ms \in Sources
  <2>1. Request(ms)
    BY <1>2, SourcesAssumption
  <2>2. /\ ms \in Seq(ResourcePlan) /\ Len(ms) \in Nat /\ DOMAIN ms = 1..Len(ms)
    BY <2>1, LenProperties DEF Request
  <2>3. DistinctMessages(ms)
    BY <2>1 DEF Request, DistinctMessages
  <2>4. ASSUME NEW k \in DOMAIN ms
        PROVE  /\ ms[k] \in ResourcePlan
               /\ ms[k].table \in Tables /\ ms[k].supplementals = <<>>
               /\ \A c, d \in Range(ms[k].columns) :
                     c.field = d.field /\ ~SynthesizedColumn(c) => c = d
               /\ \A fk \in Range(ms[k].foreignKeys) :
                     \E c \in Range(ms[k].columns) : c.name = fk.column
    <3>1. ms[k] \in Range(ms)
      BY DEF Range
    <3>2. ms[k] \in ResourcePlan
      BY <2>2
    <3>3. PICK of \in [DOMAIN ms[k].foreignKeys -> DOMAIN ms[k].columns] :
             \A b \in DOMAIN of : ms[k].columns[of[b]].name = ms[k].foreignKeys[b].column
      BY <2>1, <3>1 DEF Request
    <3>4. \A fk \in Range(ms[k].foreignKeys) :
             \E c \in Range(ms[k].columns) : c.name = fk.column
      BY <3>3 DEF Range
    <3> QED
      BY <2>1, <3>1, <3>2, <3>4 DEF Request
  <2>5. \A k \in DOMAIN ms : /\ ms[k].columns \in Seq(ColumnPlan)
                             /\ ms[k].foreignKeys \in Seq(ForeignKeyPlan)
                             /\ ms[k].scope \in Seq(Words)
                             /\ ms[k].dir \in Nat
    <3>1. \A p \in ResourcePlan : /\ p.columns \in Seq(ColumnPlan)
                                  /\ p.foreignKeys \in Seq(ForeignKeyPlan)
                                  /\ p.scope \in Seq(Words)
                                  /\ p.dir \in Nat
      BY DEF ResourcePlan
    <3> QED
      BY <2>4, <3>1
  <2> QED
    BY <2>2, <2>3, <2>4, <2>5
<1> QED
  BY <1>1, <1>2

LEMMA InitGenInv == Init => GenInv
<1> SUFFICES ASSUME Init PROVE GenInv
  OBVIOUS
<1>1. /\ runs = 0 /\ stage = "idle" /\ messages = <<>> /\ pending = <<>>
      /\ at = 1 /\ atKey = 1 /\ errors = {} /\ disk = <<>> /\ dirs = {} /\ db = {}
      /\ status = "idle" /\ files = <<>> /\ inDeg = <<>> /\ ready = {} /\ out = <<>>
  BY DEF Init, TopoInit
<1>2. TopoInv
  BY InitTopoInv DEF Init
<1>3. RunInv
  BY <1>1, MaxRunsAssumption DEF RunInv
<1>4. PlansInv /\ KeysInv
  BY <1>1 DEF PlansInv, KeysInv
<1>5. DiskInv
  <2>1. DOMAIN disk = {}
    BY <1>1
  <2> QED
    BY <1>1, <2>1, FS_EmptySet DEF DiskInv
<1>6. ApplyInv
  BY <1>1 DEF ApplyInv, TablesOf
<1> QED
  BY <1>2, <1>3, <1>4, <1>5, <1>6 DEF GenInv

---------------------------------------------------------------------------
(* The steps, one part of the invariant after the other *)

\* Once every message is resolved the plans are those of the messages, one each.
LEMMA PlansOfMessages ==
    ASSUME RunInv, PlansInv, stage \in {"references", "emit", "apply", "done"}
    PROVE  /\ messages \in Seq(ResourcePlan) /\ pending \in Seq(ResourcePlan)
           /\ Len(pending) = Len(messages) /\ Len(pending) \in Nat
           /\ DOMAIN pending = 1..Len(pending) /\ DOMAIN messages = DOMAIN pending
           /\ DistinctMessages(pending)
           /\ \A k \in DOMAIN pending :
                 /\ pending[k] \in ResourcePlan /\ messages[k] \in ResourcePlan
                 /\ SameDeclaration(pending[k], messages[k]) /\ ValidPlan(messages[k])
                 /\ pending[k].foreignKeys \in Seq(ForeignKeyPlan)
                 /\ messages[k].foreignKeys \in Seq(ForeignKeyPlan)
                 /\ DOMAIN pending[k].foreignKeys = DOMAIN messages[k].foreignKeys
                 /\ DOMAIN pending[k].foreignKeys = 1..Len(pending[k].foreignKeys)
                 /\ Len(pending[k].foreignKeys) \in Nat
<1>1. messages \in Sources \cup {<<>>} /\ pending \in Seq(ResourcePlan)
  BY DEF RunInv
<1>2. /\ Len(pending) = Len(messages)
      /\ \A k \in DOMAIN messages :
            SameDeclaration(pending[k], messages[k]) /\ ValidPlan(messages[k])
  BY DEF PlansInv
<1>3. /\ messages \in Seq(ResourcePlan) /\ DOMAIN messages = 1..Len(messages)
      /\ Len(messages) \in Nat /\ DistinctMessages(messages)
      /\ \A k \in DOMAIN messages : messages[k].foreignKeys \in Seq(ForeignKeyPlan)
  BY <1>1, RequestFacts
<1>4. DOMAIN pending = 1..Len(pending)
  BY <1>1, LenProperties
<1>5. DistinctMessages(pending)
  BY <1>2, <1>3, <1>4 DEF DistinctMessages, SameDeclaration
<1>6. \A k \in DOMAIN pending :
         /\ pending[k] \in ResourcePlan /\ messages[k] \in ResourcePlan
         /\ Len(pending[k].foreignKeys) = Len(messages[k].foreignKeys)
  BY <1>1, <1>2, <1>3, <1>4 DEF SameDeclaration
<1>7. \A p \in ResourcePlan : p.foreignKeys \in Seq(ForeignKeyPlan)
  BY DEF ResourcePlan
<1>8. \A k \in DOMAIN pending :
         /\ DOMAIN pending[k].foreignKeys = DOMAIN messages[k].foreignKeys
         /\ DOMAIN pending[k].foreignKeys = 1..Len(pending[k].foreignKeys)
         /\ Len(pending[k].foreignKeys) \in Nat
  BY <1>6, <1>7, LenProperties
<1> QED
  BY <1>1, <1>2, <1>3, <1>4, <1>5, <1>6, <1>7, <1>8

\* The step that completes a foreign key completes the one that is next.
LEMMA NextKey ==
    ASSUME RunInv, PlansInv, CompleteForeignKey
    PROVE  /\ at \in DOMAIN pending /\ atKey \in DOMAIN pending[at].foreignKeys
           /\ pending' = CompleteFK(pending, at, atKey)
           /\ pending' \in Seq(ResourcePlan) /\ Len(pending') = Len(pending)
           /\ DOMAIN pending' = DOMAIN pending
           /\ \A l \in DOMAIN pending : SameDeclaration(pending'[l], pending[l])
<1>1. /\ stage = "references" /\ at <= Len(pending) /\ atKey <= Len(pending[at].foreignKeys)
      /\ pending' = CompleteFK(pending, at, atKey)
  BY DEF CompleteForeignKey
<1>2. /\ pending \in Seq(ResourcePlan) /\ DOMAIN pending = 1..Len(pending)
      /\ DistinctMessages(pending) /\ Len(pending) \in Nat
      /\ \A k \in DOMAIN pending :
            DOMAIN pending[k].foreignKeys = 1..Len(pending[k].foreignKeys)
            /\ Len(pending[k].foreignKeys) \in Nat
  BY <1>1, PlansOfMessages
<1>3. at \in Nat \ {0} /\ atKey \in Nat \ {0}
  BY DEF RunInv
<1>4. at \in DOMAIN pending /\ atKey \in DOMAIN pending[at].foreignKeys
  BY <1>1, <1>2, <1>3
<1>5. /\ pending' \in Seq(ResourcePlan) /\ Len(pending') = Len(pending)
      /\ \A l \in DOMAIN pending : SameDeclaration(pending'[l], pending[l])
  BY <1>1, <1>2, <1>4, CompletionOfAKey
<1>6. DOMAIN pending' = DOMAIN pending
  BY <1>2, <1>5, LenProperties
<1> QED
  BY <1>1, <1>4, <1>5, <1>6

\* The loops keep within their bounds.
LEMMA NextKeepsRun ==
    ASSUME GenInv, [Next]_vars
    PROVE  RunInv'
<1>1. RunInv /\ PlansInv /\ ApplyInv
  BY DEF GenInv
<1>2. Len(messages) \in Nat /\ Len(pending) \in Nat /\ DOMAIN pending = 1..Len(pending)
  BY <1>1, RequestFacts, LenProperties DEF RunInv
<1>3. ASSUME NEW ms \in Sources, Run(ms)
      PROVE  RunInv'
  <2>1. Len(ms) \in Nat /\ ms \in Seq(ResourcePlan)
    BY RequestFacts
  <2> QED
    BY <1>1, <1>3, <2>1, MaxRunsAssumption DEF Run, RunInv
<1>4. CASE ResolveMessage
  <2>1. messages[at] \in ResourcePlan
    BY <1>1, <1>4, RequestFacts DEF ResolveMessage, RunInv
  <2>2. CASE ValidPlan(messages[at])
    <3>1. /\ pending' = Append(pending, messages[at]) /\ errors' = errors /\ at' = at + 1
          /\ UNCHANGED <<runs, stage, messages, atKey>>
          /\ stage = "resolve" /\ at <= Len(messages)
      BY <1>4, <2>2 DEF ResolveMessage
    <3>2. /\ pending' \in Seq(ResourcePlan) /\ Len(pending') = Len(pending) + 1
          /\ DOMAIN pending' = 1..(Len(pending) + 1)
          /\ \A k \in DOMAIN pending : pending'[k] = pending[k]
          /\ pending'[Len(pending) + 1] = messages[at]
      BY <1>1, <2>1, <3>1 DEF RunInv
    <3>3. errors = {} => \A k \in DOMAIN pending' :
                            pending'[k] = messages[k] /\ ValidPlan(messages[k])
      BY <1>1, <1>2, <2>2, <3>1, <3>2 DEF RunInv
    <3> QED
      BY <1>1, <1>2, <3>1, <3>2, <3>3 DEF RunInv
  <2>3. CASE ~ValidPlan(messages[at])
    <3>1. /\ pending' = pending /\ errors' # {} /\ at' = at + 1
          /\ UNCHANGED <<runs, stage, messages, atKey>>
          /\ stage = "resolve" /\ at <= Len(messages)
      BY <1>4, <2>3 DEF ResolveMessage
    <3>2. /\ at \in Nat \ {0} /\ atKey = 1 /\ Len(pending) <= at - 1
          /\ runs \in 0..MaxRuns /\ runs # 0 /\ messages \in Sources \cup {<<>>}
          /\ pending \in Seq(ResourcePlan) /\ Len(pending) <= Len(messages)
      BY <1>1, <3>1 DEF RunInv
    <3>3. at' <= Len(messages') + 1 /\ Len(pending') <= at' - 1 /\ at' \in Nat \ {0}
      BY <1>2, <3>1, <3>2
    <3> QED
      BY <3>1, <3>2, <3>3 DEF RunInv
  <2> QED
    BY <2>2, <2>3
<1>5. CASE EndResolve
  BY <1>1, <1>2, <1>5 DEF EndResolve, EndStage, RunInv
<1>6. CASE CompleteForeignKey
  <2>1. /\ stage = "references" /\ at <= Len(pending)
        /\ atKey <= Len(pending[at].foreignKeys) /\ atKey' = atKey + 1
        /\ UNCHANGED <<runs, stage, messages, at>>
    BY <1>6 DEF CompleteForeignKey
  <2>2. /\ at \in DOMAIN pending
        /\ pending' \in Seq(ResourcePlan) /\ Len(pending') = Len(pending)
        /\ Len(pending'[at].foreignKeys) = Len(pending[at].foreignKeys)
    BY <1>1, <1>6, NextKey DEF SameDeclaration
  <2>3. Len(pending[at].foreignKeys) \in Nat
    BY <1>1, <2>1, <2>2, PlansOfMessages
  <2> QED
    BY <1>1, <1>2, <2>1, <2>2, <2>3 DEF RunInv
<1>7. CASE NextPlan
  <2>1. \A k \in DOMAIN pending : Len(pending[k].foreignKeys) \in Nat
    BY <1>1, <1>7, PlansOfMessages DEF NextPlan
  <2> QED
    BY <1>1, <1>2, <1>7, <2>1 DEF NextPlan, RunInv
<1>8. CASE EndReferences
  BY <1>1, <1>2, <1>8 DEF EndReferences, EndStage, RunInv
<1>9. CASE EmitPlan
  BY <1>1, <1>2, <1>9 DEF EmitPlan, RunInv
<1>10. CASE EndEmit
  BY <1>1, <1>2, <1>10 DEF EndEmit, EndStage, RunInv
<1>11. CASE SortDir
  BY <1>1, <1>2, <1>11 DEF SortDir, RunInv
<1>12. CASE SortStep
  BY <1>1, <1>2, <1>12 DEF SortStep, runVars, RunInv
<1>13. CASE CycleFound
  BY <1>1, <1>2, <1>13 DEF CycleFound, RunInv
<1>14. CASE ApplyFile
  BY <1>1, <1>2, <1>14 DEF ApplyFile, RunInv
<1>15. CASE NextDir
  BY <1>1, <1>2, <1>15 DEF NextDir, RunInv
<1>16. CASE UNCHANGED vars
  BY <1>1, <1>2, <1>16 DEF vars, runVars, RunInv
<1> QED
  BY <1>3, <1>4, <1>5, <1>6, <1>7, <1>8, <1>9, <1>10, <1>11, <1>12, <1>13, <1>14, <1>15, <1>16
  DEF Next, Step

\* What a completed key says.
Says(done, p, fk, target, c) ==
    /\ done.column = fk.column /\ done.message = fk.message /\ done.field = fk.field
    /\ done.actions = fk.actions /\ done.table = target.table
    /\ done.target = IF Scoped(p) THEN <<target.scope[1], c.name>> ELSE <<c.name>>
    /\ done.local = IF Scoped(p) THEN <<p.scope[1], fk.column>> ELSE <<fk.column>>
    /\ done.backing <=> fk.backing /\ ~ColumnAlreadyCovered(p, fk.column)

LEMMA CompletedFields ==
    ASSUME NEW p, NEW fk \in ForeignKeyPlan, NEW target, NEW c
    PROVE  Says(Completed(p, fk, target, c), p, fk, target, c)
<1> DEFINE t == IF Scoped(p) THEN <<target.scope[1], c.name>> ELSE <<c.name>>
           l == IF Scoped(p) THEN <<p.scope[1], fk.column>> ELSE <<fk.column>>
           b == fk.backing /\ ~ColumnAlreadyCovered(p, fk.column)
           u == target.table
<1>1. Completed(p, fk, target, c) =
         [fk EXCEPT !.table = u, !.target = t, !.local = l, !.backing = b]
  BY DEF Completed
<1> HIDE DEF t, l, b, u
<1>2. /\ Completed(p, fk, target, c).column = fk.column
      /\ Completed(p, fk, target, c).message = fk.message
      /\ Completed(p, fk, target, c).field = fk.field
      /\ Completed(p, fk, target, c).actions = fk.actions
      /\ Completed(p, fk, target, c).table = u
      /\ Completed(p, fk, target, c).target = t
      /\ Completed(p, fk, target, c).local = l
      /\ Completed(p, fk, target, c).backing = b
  BY <1>1 DEF ForeignKeyPlan
<1> QED
  BY <1>2 DEF t, l, b, u, Says

\* A set of paths in one directory can be put in the order of the names.
LEMMA SortedPathsExist ==
    ASSUME NEW d, NEW n \in Nat
    PROVE  \A P : /\ IsFiniteSet(P) /\ Cardinality(P) = n
                  /\ \A path \in P : path \in [dir : Nat, file : Nat] /\ path.dir = d
              => \E s \in [1..n -> P] :
                    \A k, l \in DOMAIN s : k < l => s[k].file < s[l].file
<1> DEFINE Good(P, m) ==
              /\ IsFiniteSet(P) /\ Cardinality(P) = m
              /\ \A path \in P : path \in [dir : Nat, file : Nat] /\ path.dir = d
           Sorted(P, m) == \E s \in [1..m -> P] :
                              \A k, l \in DOMAIN s : k < l => s[k].file < s[l].file
           T == { m \in Nat : \E P : Good(P, m) /\ ~Sorted(P, m) }
<1> SUFFICES ASSUME T # {} PROVE FALSE
  OBVIOUS
<1>1. PICK m \in T : \A y \in T : m <= y
  <2>1. T \subseteq Nat
    OBVIOUS
  <2> HIDE DEF T
  <2> QED
    BY <2>1, NatLeast
<1>2. PICK P : Good(P, m) /\ ~Sorted(P, m)
  BY <1>1
<1>3. CASE m = 0
  <2> DEFINE s == [k \in 1..0 |-> 0]
  <2>1. s \in [1..m -> P] /\ DOMAIN s = {}
    BY <1>3
  <2>2. Sorted(P, m)
    BY <2>1
  <2> QED
    BY <1>2, <2>2
<1>4. CASE m # 0
  <2>1. P # {} /\ m \in Nat /\ m - 1 \in Nat
    BY <1>1, <1>2, <1>4, FS_EmptySet
  <2> DEFINE N == { path.file : path \in P }
  <2>2. PICK x \in P : \A y \in P : x.file <= y.file
    <3>1. N \subseteq Nat /\ N # {}
      BY <1>2, <2>1
    <3> HIDE DEF N
    <3>2. PICK a \in N : \A b \in N : a <= b
      BY <3>1, NatLeast
    <3> QED
      BY <3>2 DEF N
  <2>3. \A y \in P \ {x} : x.file < y.file
    <3> TAKE y \in P \ {x}
    <3>1. x \in [dir : Nat, file : Nat] /\ y \in [dir : Nat, file : Nat] /\ x.dir = y.dir
      BY <1>2
    <3>2. x.file # y.file
      BY <3>1
    <3> QED
      BY <2>2, <3>1, <3>2
  <2>4. Good(P \ {x}, m - 1)
    BY <1>2, FS_RemoveElement
  <2>5. m - 1 \notin T
    BY <1>1, <2>1
  <2>6. PICK s \in [1..(m - 1) -> P \ {x}] :
           \A k, l \in DOMAIN s : k < l => s[k].file < s[l].file
    BY <2>1, <2>4, <2>5
  <2> DEFINE t == [k \in 1..m |-> IF k = 1 THEN x ELSE s[k - 1]]
  <2>7. t \in [1..m -> P]
    BY <2>1, <2>6
  <2>8. \A k, l \in DOMAIN t : k < l => t[k].file < t[l].file
    <3> SUFFICES ASSUME NEW k \in 1..m, NEW l \in 1..m, k < l
                 PROVE  t[k].file < t[l].file
      OBVIOUS
    <3>1. l # 1 /\ l - 1 \in 1..(m - 1) /\ t[l] = s[l - 1]
      BY <2>1
    <3>2. CASE k = 1
      BY <2>3, <2>6, <3>1, <3>2
    <3>3. CASE k # 1
      <4>1. k - 1 \in 1..(m - 1) /\ k - 1 < l - 1 /\ t[k] = s[k - 1]
        BY <2>1, <3>3
      <4> QED
        BY <2>6, <3>1, <4>1
    <3> QED
      BY <3>2, <3>3
  <2>9. Sorted(P, m)
    BY <2>7, <2>8
  <2> QED
    BY <1>2, <2>9
<1> QED
  BY <1>3, <1>4

\* The files of a directory are a sequence, and every one of them is in it once.
LEMMA DiscoveredFiles ==
    ASSUME DiskInv, NEW d
    PROVE  /\ IsSeq(Discovered(d)) /\ Len(Discovered(d)) \in Nat
           /\ DOMAIN Discovered(d) = 1..Len(Discovered(d))
           /\ \A k \in DOMAIN Discovered(d) :
                 Discovered(d)[k] \in DOMAIN disk /\ Discovered(d)[k].dir = d
           /\ \A k, l \in DOMAIN Discovered(d) : Discovered(d)[k] = Discovered(d)[l] => k = l
           /\ \A path \in DOMAIN disk : path.dir = d =>
                 \E k \in DOMAIN Discovered(d) : Discovered(d)[k] = path
<1> DEFINE P == { path \in DOMAIN disk : path.dir = d }
           n == Cardinality(P)
<1>1. IsFiniteSet(P) /\ n \in Nat
  BY FS_Subset, FS_CardinalityType DEF DiskInv
<1>2. \A path \in P : path \in [dir : Nat, file : Nat] /\ path.dir = d
  <2> TAKE path \in P
  <2>1. PICK p \in ResourcePlan : path = PathOf(p)
    BY DEF DiskInv, FileMadeBy
  <2> QED
    BY <2>1 DEF PathOf, ResourcePlan
<1>3. Discovered(d) = CHOOSE s \in [1..n -> P] :
                         \A k, l \in DOMAIN s : k < l => s[k].file < s[l].file
  BY DEF Discovered
<1>4. \E s \in [1..n -> P] : \A k, l \in DOMAIN s : k < l => s[k].file < s[l].file
  <2> HIDE DEF P
  <2>1. \A m \in Nat : m = Cardinality(P) =>
           \E s \in [1..m -> P] : \A k, l \in DOMAIN s : k < l => s[k].file < s[l].file
    BY <1>1, <1>2, SortedPathsExist
  <2> QED
    BY <1>1, <2>1
<1> DEFINE s == Discovered(d)
<1> HIDE DEF P, n
<1>5. s \in [1..n -> P] /\ \A k, l \in DOMAIN s : k < l => s[k].file < s[l].file
  BY <1>3, <1>4
<1> HIDE DEF s
<1>6. \A k, l \in 1..n : s[k] = s[l] => k = l
  <2> TAKE k, l \in 1..n
  <2>1. s[k].file \in Nat /\ s[l].file \in Nat
    BY <1>2, <1>5
  <2>2. k < l => s[k].file < s[l].file
    BY <1>5
  <2>3. l < k => s[l].file < s[k].file
    BY <1>5
  <2> QED
    BY <1>1, <2>1, <2>2, <2>3
<1>7. s \in SetToSeqs(P)
  BY <1>5, <1>6 DEF SetToSeqs, n
<1>8. \A path \in P : \E k \in 1..n : s[k] = path
  BY <1>1, <1>7, EnumerationIsOnto DEF n
<1>9. IsSeq(s) /\ Len(s) = n /\ DOMAIN s = 1..n
  BY <1>1, <1>5, FunctionIsASeq
<1> QED
  BY <1>1, <1>5, <1>6, <1>8, <1>9 DEF P, s

\* What the sorter reads in the file of a completed plan.
LEMMA FileContentType ==
    ASSUME NEW ms \in Sources, NEW i \in DOMAIN ms, NEW p, MadeOf(p, ms, i)
    PROVE  FileContent(RenderSchemaSQL(p)) \in File
<1>1. /\ p \in ResourcePlan /\ p.table = ms[i].table
      /\ Len(p.foreignKeys) = Len(ms[i].foreignKeys)
  BY DEF MadeOf, SameDeclaration
<1>2. /\ ms[i] \in ResourcePlan /\ ms[i].foreignKeys \in Seq(ForeignKeyPlan)
      /\ \A k \in DOMAIN ms : ms[k].table \in Tables
  BY RequestFacts
<1>3. p.foreignKeys \in Seq(ForeignKeyPlan)
  BY <1>1 DEF ResourcePlan
<1>4. \A fk \in Range(p.foreignKeys) : fk.table \in Tables
  <2> SUFFICES ASSUME NEW b \in DOMAIN p.foreignKeys
               PROVE  p.foreignKeys[b].table \in Tables
    BY DEF Range
  <2>1. b \in DOMAIN ms[i].foreignKeys /\ ms[i].foreignKeys[b] \in ForeignKeyPlan
    BY <1>1, <1>2, <1>3, LenProperties, ElementOfSeq
  <2>2. CompletionOf(ms, ms[i], ms[i].foreignKeys[b], p.foreignKeys[b])
    BY <2>1 DEF MadeOf
  <2>3. PICK q \in Range(ms) : \E c \in TargetColumns(q, ms[i].foreignKeys[b]) :
           p.foreignKeys[b] = Completed(ms[i], ms[i].foreignKeys[b], q, c)
    BY <2>2 DEF CompletionOf
  <2>4. p.foreignKeys[b].table = q.table
    <3>1. PICK c : p.foreignKeys[b] = Completed(ms[i], ms[i].foreignKeys[b], q, c)
      BY <2>3
    <3>2. Completed(ms[i], ms[i].foreignKeys[b], q, c).table = q.table
      <4> DEFINE m == ms[i]
                 fk == ms[i].foreignKeys[b]
      <4>1. fk \in ForeignKeyPlan
        BY <2>1
      <4> HIDE DEF m, fk
      <4>2. Says(Completed(m, fk, q, c), m, fk, q, c)
        BY <4>1, CompletedFields
      <4> QED
        BY <4>2 DEF Says, m, fk
    <3> QED
      BY <3>1, <3>2
  <2> QED
    BY <1>2, <2>4 DEF Range
<1>5. TablesOf(Range(RenderSchemaSQL(p))) = {CreateTable(p)}
  BY <1>1, OneTablePerFile
<1>6. /\ CreateTable(p).name = p.table
      /\ \A f \in CreateTable(p).foreignKeys : f.table \in Tables
  BY <1>4 DEF CreateTable
<1> DEFINE ts == TablesOf(Range(RenderSchemaSQL(p)))
<1>7. /\ { s.name : s \in ts } \in SUBSET Tables
      /\ UNION { { fk.table : fk \in s.foreignKeys } : s \in ts } \in SUBSET Tables
  <2>1. ts = {CreateTable(p)}
    BY <1>5
  <2> HIDE DEF ts
  <2> QED
    BY <1>1, <1>2, <1>6, <2>1
<1> QED
  BY <1>7 DEF FileContent, File

\* The sorter is given files it can read.
LEMMA SortDirBegins ==
    ASSUME DiskInv, TopoInv, SortDir
    PROVE  TopoInv' /\ Len(files') = Len(Discovered(ThisDir))
           /\ status' = "sorting" /\ out' = <<>>
<1> DEFINE paths == Discovered(ThisDir)
           fs == [k \in DOMAIN paths |-> FileContent(disk[paths[k]])]
<1>1. Begin(fs)
  BY DEF SortDir
<1>2. /\ Len(paths) \in Nat /\ DOMAIN paths = 1..Len(paths)
      /\ \A k \in DOMAIN paths : paths[k] \in DOMAIN disk
  BY DiscoveredFiles
<1>3. \A path \in DOMAIN disk : FileContent(disk[path]) \in File
  BY FileContentType DEF DiskInv, FileMadeBy
<1> HIDE DEF paths
<1>4. fs \in [1..Len(paths) -> File]
  BY <1>2, <1>3
<1>5. fs \in Seq(File) /\ Len(fs) = Len(paths)
  BY <1>2, <1>4, SeqDef
<1> HIDE DEF fs
<1>6. TopoInv'
  BY <1>1, <1>5, BeginKeepsTopoInv
<1> QED
  BY <1>1, <1>5, <1>6 DEF Begin, paths

\* The sorter keeps its invariant in a run.
LEMMA NextKeepsTopo ==
    ASSUME GenInv, [Next]_vars
    PROVE  TopoInv'
<1>1. TopoInv /\ DiskInv
  BY DEF GenInv
<1>2. ASSUME NEW ms \in Sources, Run(ms)
      PROVE  TopoInv'
  BY <1>1, <1>2, ResetKeepsTopoInv DEF Run
<1>3. CASE SortDir
  BY <1>1, <1>3, SortDirBegins
<1>4. CASE SortStep
  BY <1>1, <1>4, EmitKeepsTopoInv, FinishKeepsTopoInv DEF SortStep
<1>5. CASE NextDir
  BY <1>1, <1>5, ResetKeepsTopoInv DEF NextDir
<1>6. CASE \/ ResolveMessage \/ EndResolve \/ CompleteForeignKey \/ NextPlan
           \/ EndReferences \/ EmitPlan \/ EndEmit \/ CycleFound \/ ApplyFile \/ UNCHANGED vars
  <2>1. UNCHANGED topoVars
    BY <1>6 DEF ResolveMessage, EndResolve, CompleteForeignKey, NextPlan, EndReferences,
                EmitPlan, EndEmit, CycleFound, ApplyFile, vars
  <2> QED
    BY <1>1, <2>1, StutterKeepsTopoInv
<1> QED
  BY <1>2, <1>3, <1>4, <1>5, <1>6 DEF Next, Step

\* Resolution leaves one plan for each message.
LEMMA NextKeepsPlans ==
    ASSUME GenInv, [Next]_vars
    PROVE  PlansInv'
<1>1. RunInv /\ PlansInv
  BY DEF GenInv
<1>2. ASSUME NEW ms \in Sources, Run(ms)
      PROVE  PlansInv'
  BY <1>2 DEF Run, PlansInv
<1>3. CASE EndResolve
  <2> SUFFICES ASSUME stage' = "references" PROVE PlansInv'
    BY <1>3 DEF EndResolve, EndStage, PlansInv
  <2>1. /\ stage = "resolve" /\ at > Len(messages) /\ errors = {}
        /\ messages' = messages /\ pending' = pending
    BY <1>3 DEF EndResolve, EndStage
  <2>2. /\ at \in Nat /\ at <= Len(messages) + 1 /\ Len(pending) = at - 1
        /\ \A k \in DOMAIN pending : pending[k] = messages[k] /\ ValidPlan(messages[k])
    BY <1>1, <2>1 DEF RunInv
  <2>3. /\ Len(messages) \in Nat /\ DOMAIN messages = 1..Len(messages)
        /\ DOMAIN pending = 1..Len(pending)
    BY <1>1, RequestFacts, LenProperties DEF RunInv
  <2>4. Len(pending) = Len(messages)
    BY <2>1, <2>2, <2>3
  <2> QED
    BY <2>1, <2>2, <2>3, <2>4 DEF PlansInv, SameDeclaration
<1>4. CASE CompleteForeignKey
  <2>1. stage = "references" /\ stage' = "references" /\ messages' = messages
    BY <1>4 DEF CompleteForeignKey
  <2>2. /\ Len(pending) = Len(messages) /\ DOMAIN messages = DOMAIN pending
        /\ \A k \in DOMAIN pending :
              SameDeclaration(pending[k], messages[k]) /\ ValidPlan(messages[k])
    BY <1>1, <2>1, PlansOfMessages
  <2>3. /\ Len(pending') = Len(pending)
        /\ \A k \in DOMAIN pending : SameDeclaration(pending'[k], pending[k])
    BY <1>1, <1>4, NextKey
  <2>4. \A k \in DOMAIN pending : SameDeclaration(pending'[k], messages[k])
    BY <2>2, <2>3 DEF SameDeclaration
  <2> QED
    BY <2>1, <2>2, <2>3, <2>4 DEF PlansInv
<1>5. CASE ResolveMessage
  BY <1>5 DEF ResolveMessage, PlansInv
<1>6. CASE \/ NextPlan \/ EndReferences \/ EmitPlan \/ EndEmit \/ SortDir \/ SortStep
           \/ CycleFound \/ ApplyFile \/ NextDir \/ UNCHANGED vars
  <2>1. /\ messages' = messages /\ pending' = pending
        /\ stage' \in {"references", "emit", "apply", "done"} =>
              stage \in {"references", "emit", "apply", "done"}
    BY <1>6 DEF NextPlan, EndReferences, EndStage, EmitPlan, EndEmit, SortDir, SortStep,
                CycleFound, ApplyFile, NextDir, vars, runVars
  <2> QED
    BY <1>1, <2>1 DEF PlansInv
<1> QED
  BY <1>2, <1>3, <1>4, <1>5, <1>6 DEF Next, Step

\* Resolution does not look at what completion adds.
LEMMA SameCompletion ==
    ASSUME NEW p, NEW m, SameDeclaration(p, m), NEW q, NEW r, SameDeclaration(q, r), NEW fk, NEW c
    PROVE  /\ Completed(p, fk, q, c) = Completed(m, fk, r, c)
           /\ Scoped(p) = Scoped(m)
           /\ TargetColumns(p, fk) = TargetColumns(m, fk)
           /\ TargetPKCoversTenantComposite(p, c) = TargetPKCoversTenantComposite(m, c)
           /\ Supplemental(p, c) = Supplemental(m, c)
<1>1. Scoped(p) = Scoped(m)
  BY DEF SameDeclaration, Scoped
<1>2. \A x : ColumnAlreadyCovered(p, x) = ColumnAlreadyCovered(m, x)
  BY <1>1 DEF SameDeclaration, ColumnAlreadyCovered
<1>3. Completed(p, fk, q, c) = Completed(m, fk, r, c)
  BY <1>1, <1>2 DEF SameDeclaration, Completed
<1>4. TargetColumns(p, fk) = TargetColumns(m, fk)
  BY DEF SameDeclaration, TargetColumns
<1>5. TargetPKCoversTenantComposite(p, c) = TargetPKCoversTenantComposite(m, c)
  BY DEF SameDeclaration, TargetPKCoversTenantComposite
<1>6. Supplemental(p, c) = Supplemental(m, c)
  BY DEF SameDeclaration, Supplemental, SupplementalName
<1> QED
  BY <1>1, <1>3, <1>4, <1>5, <1>6

\* Two uniques of a scoped message have one name only if they are of one column.
LEMMA OneNameOneColumn ==
    ASSUME NEW m \in ResourcePlan, Scoped(m), NEW x \in Words, NEW y \in Words,
           SupplementalName(m, x) = SupplementalName(m, y)
    PROVE  x = y
<1> DEFINE pre == <<"uq">> \o m.table \o m.scope[1]
<1>1. m.table \in Words /\ m.scope[1] \in Words
  <2>1. m.table \in Words /\ m.scope \in Seq(Words)
    BY DEF ResourcePlan
  <2> QED
    BY <2>1, EmptySeq, ElementOfSeq DEF Scoped
<1>2. pre \in Seq(STRING)
  <2> DEFINE uq == <<"uq">>
             tenant == m.scope[1]
  <2>1. uq \in Words
    <3>1. \A S : \A z \in S : <<z>> \in Seq(S)
      OBVIOUS
    <3> QED
      BY <3>1, UniquePrefixAssumption DEF Words
  <2>2. pre = uq \o m.table \o tenant
    OBVIOUS
  <2> HIDE DEF uq, tenant, pre
  <2> QED
    BY <1>1, <2>1, <2>2, ConcatProperties DEF Words, tenant
<1>3. SupplementalName(m, x) = pre \o x /\ SupplementalName(m, y) = pre \o y
  BY DEF SupplementalName
<1> HIDE DEF pre
<1>4. x \in Seq(STRING) /\ y \in Seq(STRING)
  BY DEF Words
<1>5. \A S : \A s, t, v \in Seq(S) : s \o t = s \o v => t = v
  BY ConcatSimplifications
<1> HIDE DEF Words
<1> QED
  BY <1>2, <1>3, <1>4, <1>5

\* A unique that is added is there once.
LEMMA AddedOnce ==
    ASSUME NEW m \in ResourcePlan, Scoped(m), NEW C, \A d \in C : d.name \in Words,
           NEW c, c.name \in Words,
           NEW uqs \in Seq(SupplementalUniqueConstraint), HasSupplementals(uqs, m, C)
    PROVE  HasSupplementals(AddSupplementalUnique(uqs, Supplemental(m, c)), m, C \cup {c})
<1> DEFINE uq == Supplemental(m, c)
<1>1. uq.name = SupplementalName(m, c.name)
  BY DEF Supplemental
<1>2. \A d \in C : Supplemental(m, d).name = SupplementalName(m, d.name)
  BY DEF Supplemental
<1>3. { Supplemental(m, d) : d \in C \cup {c} } = { Supplemental(m, d) : d \in C } \cup {uq}
  OBVIOUS
<1>4. CASE \E k \in DOMAIN uqs : uqs[k].name = uq.name
  <2>1. PICK k \in DOMAIN uqs : uqs[k].name = uq.name
    BY <1>4
  <2>2. PICK d \in C : uqs[k] = Supplemental(m, d)
    BY DEF HasSupplementals, Range
  <2>3. d.name = c.name
    BY <1>1, <1>2, <2>1, <2>2, OneNameOneColumn
  <2>4. Supplemental(m, d) = uq
    BY <2>3 DEF Supplemental
  <2>5. AddSupplementalUnique(uqs, uq) = uqs
    BY <1>4 DEF AddSupplementalUnique
  <2> HIDE DEF uq
  <2>6. { Supplemental(m, e) : e \in C } \cup {uq} = { Supplemental(m, e) : e \in C }
    BY <2>4
  <2> QED
    BY <1>3, <2>5, <2>6 DEF HasSupplementals, uq
<1>5. CASE ~\E k \in DOMAIN uqs : uqs[k].name = uq.name
  <2> DEFINE new == Append(uqs, uq)
  <2>1. AddSupplementalUnique(uqs, uq) = new
    BY <1>5 DEF AddSupplementalUnique
  <2> HIDE DEF uq
  <2>2. Len(uqs) \in Nat /\ DOMAIN uqs = 1..Len(uqs)
    BY LenProperties
  <2>3. /\ DOMAIN new = 1..(Len(uqs) + 1) /\ new[Len(uqs) + 1] = uq
        /\ \A k \in DOMAIN uqs : new[k] = uqs[k]
    BY <2>2
  <2> HIDE DEF new
  <2>4. DOMAIN new = DOMAIN uqs \cup {Len(uqs) + 1}
    BY <2>2, <2>3
  <2>5. Range(new) = Range(uqs) \cup {uq}
    BY <2>3, <2>4 DEF Range
  <2>6. \A k \in DOMAIN uqs : uqs[k] # uq
    BY <1>5
  <2>7. \A k, l \in DOMAIN new : new[k] = new[l] => k = l
    BY <2>2, <2>3, <2>4, <2>6 DEF HasSupplementals
  <2> QED
    BY <1>3, <2>1, <2>5, <2>7 DEF HasSupplementals, uq
<1> QED
  BY <1>4, <1>5

\* Which foreign keys are passed matters only for those there are.
LEMMA SameKeys ==
    ASSUME NEW ms, NEW plans, NEW K, NEW L, Completes(plans, ms, K),
           \A a \in DOMAIN ms : \A b \in DOMAIN ms[a].foreignKeys :
               <<a, b>> \in K <=> <<a, b>> \in L
    PROVE  Completes(plans, ms, L)
<1>1. \A k \in DOMAIN ms : Wanted(ms, K, k) = Wanted(ms, L, k)
  BY DEF Wanted
<1> QED
  BY <1>1 DEF Completes

\* When the completion begins, nothing is completed.
LEMMA NoneCompleted ==
    ASSUME NEW ms \in Sources \cup {<<>>}, NEW plans, \A k \in DOMAIN ms : plans[k] = ms[k],
           NEW K, \A a \in DOMAIN ms : \A b \in DOMAIN ms[a].foreignKeys : <<a, b>> \notin K
    PROVE  Completes(plans, ms, K)
<1> SUFFICES ASSUME NEW k \in DOMAIN ms
             PROVE  HasSupplementals(plans[k].supplementals, ms[k], Wanted(ms, K, k))
  BY DEF Completes
<1>1. ms[k].supplementals = <<>> /\ plans[k].supplementals = <<>>
  BY RequestFacts
<1>2. Wanted(ms, K, k) = {}
  BY DEF Wanted
<1>3. Range(<<>>) = {} /\ DOMAIN <<>> = {}
  BY DEF Range
<1> QED
  BY <1>1, <1>2, <1>3 DEF HasSupplementals

\* One more foreign key is completed, and no other plan's uniques change than those
\* of its target.
LEMMA OneMoreKey ==
    ASSUME NEW ms \in Sources \cup {<<>>},
           NEW plans \in Seq(ResourcePlan), DOMAIN plans = DOMAIN ms,
           \A k \in DOMAIN ms : SameDeclaration(plans[k], ms[k]),
           NEW K, Completes(plans, ms, K),
           NEW i \in DOMAIN ms, NEW j \in DOMAIN ms[i].foreignKeys, <<i, j>> \notin K,
           DOMAIN plans[i].foreignKeys = DOMAIN ms[i].foreignKeys,
           Resolvable(plans, plans[i], plans[i].foreignKeys[j]),
           NEW new, new = CompleteFK(plans, i, j),
           \A k \in DOMAIN ms : DOMAIN plans[k].foreignKeys = DOMAIN ms[k].foreignKeys
    PROVE  Completes(new, ms, K \cup {<<i, j>>})
<1> DEFINE fk == ms[i].foreignKeys[j]
           L == K \cup {<<i, j>>}
<1>1. /\ DistinctMessages(ms)
      /\ \A k \in DOMAIN ms :
            /\ ms[k] \in ResourcePlan
            /\ ms[k].columns \in Seq(ColumnPlan)
            /\ \A c, d \in Range(ms[k].columns) :
                  c.field = d.field /\ ~SynthesizedColumn(c) => c = d
  BY RequestFacts
<1>2. DistinctMessages(plans) /\ \A k \in DOMAIN ms : plans[k].fqn = ms[k].fqn
  BY <1>1 DEF DistinctMessages, SameDeclaration
<1>3. plans[i].foreignKeys[j] = fk
  BY DEF Completes
<1> HIDE DEF fk, L
<1>4. PICK k \in Targets(plans, fk) : \E c \in TargetColumns(plans[k], fk) :
         /\ Scoped(plans[i]) = Scoped(plans[k])
         /\ new[i].foreignKeys[j] = Completed(plans[i], fk, plans[k], c)
         /\ \A l \in DOMAIN plans :
               new[l].supplementals = IF l = k THEN Referenced(plans[k], c).supplementals
                                      ELSE plans[l].supplementals
  <2> DEFINE key == plans[i].foreignKeys[j]
  <2>1. \E k \in Targets(plans, key) : \E c \in TargetColumns(plans[k], key) :
           /\ Scoped(plans[i]) = Scoped(plans[k])
           /\ new[i].foreignKeys[j] = Completed(plans[i], key, plans[k], c)
           /\ \A l \in DOMAIN plans :
                 new[l].supplementals = IF l = k THEN Referenced(plans[k], c).supplementals
                                        ELSE plans[l].supplementals
    <3>1. KeyCompleted(new, plans, i, j)
      BY <1>2, CompletionOfAKey
    <3> QED
      BY <3>1 DEF KeyCompleted
  <2>2. key = fk
    BY <1>3
  <2> HIDE DEF key
  <2> QED
    BY <2>1, <2>2
<1>5. PICK c \in TargetColumns(plans[k], fk) :
         /\ Scoped(plans[i]) = Scoped(plans[k])
         /\ new[i].foreignKeys[j] = Completed(plans[i], fk, plans[k], c)
         /\ \A l \in DOMAIN plans :
               new[l].supplementals = IF l = k THEN Referenced(plans[k], c).supplementals
                                      ELSE plans[l].supplementals
  BY <1>4
<1>6. /\ k \in DOMAIN ms /\ ms[k].fqn = fk.message /\ ms[k] \in Range(ms)
      /\ SameDeclaration(plans[k], ms[k]) /\ SameDeclaration(plans[i], ms[i])
  BY <1>2, <1>4 DEF Targets, Range
<1>7. /\ c \in TargetColumns(ms[k], fk) /\ Scoped(ms[i]) = Scoped(ms[k])
      /\ new[i].foreignKeys[j] = Completed(ms[i], fk, ms[k], c)
      /\ Scoped(plans[k]) = Scoped(ms[k])
      /\ TargetPKCoversTenantComposite(plans[k], c.name) =
            TargetPKCoversTenantComposite(ms[k], c.name)
      /\ Supplemental(plans[k], c) = Supplemental(ms[k], c)
  <2>1. /\ Completed(plans[i], fk, plans[k], c) = Completed(ms[i], fk, ms[k], c)
        /\ Scoped(plans[i]) = Scoped(ms[i])
    BY <1>6, SameCompletion
  <2>2. /\ Scoped(plans[k]) = Scoped(ms[k])
        /\ TargetColumns(plans[k], fk) = TargetColumns(ms[k], fk)
        /\ Supplemental(plans[k], c) = Supplemental(ms[k], c)
    BY <1>6, SameCompletion
  <2>3. TargetPKCoversTenantComposite(plans[k], c.name) =
           TargetPKCoversTenantComposite(ms[k], c.name)
    BY <1>6, SameCompletion
  <2> QED
    BY <1>5, <2>1, <2>2, <2>3
<1>8. CompletionOf(ms, ms[i], fk, new[i].foreignKeys[j])
  BY <1>6, <1>7 DEF CompletionOf
<1>9. \A l \in DOMAIN ms : \A b \in DOMAIN ms[l].foreignKeys :
         l # i \/ b # j => /\ new[l].foreignKeys[b] = plans[l].foreignKeys[b]
                           /\ <<l, b>> \in L <=> <<l, b>> \in K
  <2>1. \A l \in DOMAIN plans : \A b \in DOMAIN plans[l].foreignKeys :
           l # i \/ b # j => new[l].foreignKeys[b] = plans[l].foreignKeys[b]
    BY <1>2, CompletionOfAKey
  <2> QED
    BY <2>1 DEF L
<1>10. <<i, j>> \in L
  BY DEF L
<1>11. \A l \in DOMAIN ms : \A b \in DOMAIN ms[l].foreignKeys :
          IF <<l, b>> \in L
          THEN CompletionOf(ms, ms[l], ms[l].foreignKeys[b], new[l].foreignKeys[b])
          ELSE new[l].foreignKeys[b] = ms[l].foreignKeys[b]
  <2> TAKE l \in DOMAIN ms
  <2> TAKE b \in DOMAIN ms[l].foreignKeys
  <2>1. CASE l = i /\ b = j
    BY <1>8, <1>10, <2>1 DEF fk
  <2>2. CASE l # i \/ b # j
    <3>1. IF <<l, b>> \in K
          THEN CompletionOf(ms, ms[l], ms[l].foreignKeys[b], plans[l].foreignKeys[b])
          ELSE plans[l].foreignKeys[b] = ms[l].foreignKeys[b]
      BY DEF Completes
    <3>2. new[l].foreignKeys[b] = plans[l].foreignKeys[b] /\ (<<l, b>> \in L <=> <<l, b>> \in K)
      BY <1>9, <2>2
    <3> QED
      BY <3>1, <3>2
  <2> QED
    BY <2>1, <2>2
<1> DEFINE Needs(m, d) == /\ Scoped(m) /\ ~SynthesizedColumn(d) /\ ~d.unique
                          /\ ~TargetPKCoversTenantComposite(m, d.name)
<1>12. \A l \in DOMAIN ms :
          Wanted(ms, L, l) = Wanted(ms, K, l) \cup
              { d \in Range(ms[l].columns) :
                  Needs(ms[l], d) /\ fk.message = ms[l].fqn /\ fk.field = d.field }
  <2> SUFFICES ASSUME NEW l \in DOMAIN ms, NEW d \in Range(ms[l].columns), Needs(ms[l], d)
               PROVE  d \in Wanted(ms, L, l) <=>
                         d \in Wanted(ms, K, l) \/ (fk.message = ms[l].fqn /\ fk.field = d.field)
    BY DEF Wanted
  <2> DEFINE By(a, b) == /\ ms[a].foreignKeys[b].message = ms[l].fqn
                         /\ ms[a].foreignKeys[b].field = d.field
  <2>1. \A M : d \in Wanted(ms, M, l) <=>
           \E a \in DOMAIN ms : \E b \in DOMAIN ms[a].foreignKeys : <<a, b>> \in M /\ By(a, b)
    BY DEF Wanted
  <2>2. By(i, j) <=> fk.message = ms[l].fqn /\ fk.field = d.field
    BY DEF fk
  <2> HIDE DEF By, Needs
  <2>3. ASSUME d \in Wanted(ms, L, l)
        PROVE  d \in Wanted(ms, K, l) \/ By(i, j)
    <3>1. PICK a \in DOMAIN ms : \E b \in DOMAIN ms[a].foreignKeys : <<a, b>> \in L /\ By(a, b)
      BY <2>1, <2>3
    <3>2. PICK b \in DOMAIN ms[a].foreignKeys : <<a, b>> \in L /\ By(a, b)
      BY <3>1
    <3>3. CASE a = i /\ b = j
      BY <3>2, <3>3
    <3>4. CASE a # i \/ b # j
      BY <1>9, <2>1, <3>2, <3>4
    <3> QED
      BY <3>3, <3>4
  <2>4. ASSUME d \in Wanted(ms, K, l) \/ By(i, j)
        PROVE  d \in Wanted(ms, L, l)
    <3>1. K \subseteq L
      BY DEF L
    <3>2. CASE d \in Wanted(ms, K, l)
      BY <2>1, <3>1, <3>2
    <3>3. CASE By(i, j)
      BY <1>10, <2>1, <3>3
    <3> QED
      BY <2>4, <3>2, <3>3
  <2> QED
    BY <2>2, <2>3, <2>4
<1>13. ASSUME NEW l \in DOMAIN ms, l # k
       PROVE  HasSupplementals(new[l].supplementals, ms[l], Wanted(ms, L, l))
  <2>1. ms[l].fqn # fk.message
    BY <1>1, <1>6, <1>13 DEF DistinctMessages
  <2>2. Wanted(ms, L, l) = Wanted(ms, K, l)
    BY <1>12, <2>1
  <2>3. new[l].supplementals = plans[l].supplementals
    BY <1>5, <1>13
  <2> QED
    BY <2>2, <2>3 DEF Completes
<1>14. HasSupplementals(new[k].supplementals, ms[k], Wanted(ms, L, k))
  <2>1. \A d \in Range(ms[k].columns) : fk.field = d.field => d = c
    BY <1>1, <1>6, <1>7 DEF TargetColumns
  <2>2. c \in Range(ms[k].columns) /\ c.field = fk.field /\ ~SynthesizedColumn(c)
    BY <1>7 DEF TargetColumns
  <2>3. { d \in Range(ms[k].columns) :
            Needs(ms[k], d) /\ fk.message = ms[k].fqn /\ fk.field = d.field } =
           IF Needs(ms[k], c) THEN {c} ELSE {}
    <3> HIDE DEF Needs
    <3> QED
      BY <1>6, <2>1, <2>2
  <2>4. Wanted(ms, L, k) = Wanted(ms, K, k) \cup IF Needs(ms[k], c) THEN {c} ELSE {}
    BY <1>6, <1>12, <2>3
  <2>5. HasSupplementals(plans[k].supplementals, ms[k], Wanted(ms, K, k))
    BY <1>6 DEF Completes
  <2>6. /\ new[k].supplementals = Referenced(plans[k], c).supplementals
        /\ plans[k] \in ResourcePlan /\ plans[k].supplementals \in Seq(SupplementalUniqueConstraint)
    <3>1. new[k].supplementals = Referenced(plans[k], c).supplementals
      BY <1>5, <1>6
    <3>2. plans[k] \in ResourcePlan
      BY <1>6
    <3> QED
      BY <3>1, <3>2 DEF ResourcePlan
  <2>7. CASE Needs(ms[k], c)
    <3> DEFINE sup == AddSupplementalUnique(plans[k].supplementals, Supplemental(ms[k], c))
    <3>1. Referenced(plans[k], c) =
             [plans[k] EXCEPT !.supplementals =
                 AddSupplementalUnique(@, Supplemental(plans[k], c))]
      BY <1>7, <2>7 DEF Referenced, Supplemental
    <3>2. Referenced(plans[k], c) = [plans[k] EXCEPT !.supplementals = sup]
      BY <1>7, <3>1
    <3> HIDE DEF sup
    <3>3. new[k].supplementals = sup
      BY <2>6, <3>2 DEF ResourcePlan
    <3>4. \A d \in Range(ms[k].columns) : d.name \in Words
      <4>1. \A d \in ColumnPlan : d.name \in Words
        BY DEF ColumnPlan
      <4>2. ms[k].columns \in Seq(ColumnPlan)
        BY <1>1, <1>6
      <4> QED
        BY <4>1, <4>2, SeqIsSeq
    <3>5. Wanted(ms, K, k) \subseteq Range(ms[k].columns)
      BY DEF Wanted
    <3>6. HasSupplementals(sup, ms[k], Wanted(ms, K, k) \cup {c})
      BY <1>1, <1>6, <2>2, <2>5, <2>6, <2>7, <3>4, <3>5, AddedOnce DEF sup
    <3> QED
      BY <2>4, <2>7, <3>3, <3>6
  <2>8. CASE ~Needs(ms[k], c)
    <3>1. Referenced(plans[k], c) = plans[k]
      BY <1>7, <2>2, <2>8 DEF Referenced
    <3> QED
      BY <2>4, <2>5, <2>6, <2>8, <3>1
  <2> QED
    BY <2>7, <2>8
<1> QED
  BY <1>11, <1>13, <1>14 DEF Completes, L

\* The foreign keys passed are completed, the others are not.
LEMMA NextKeepsKeys ==
    ASSUME GenInv, [Next]_vars
    PROVE  KeysInv'
<1>1. RunInv /\ PlansInv /\ KeysInv
  BY DEF GenInv
<1>2. messages \in Sources \cup {<<>>}
  BY <1>1 DEF RunInv
<1>3. ASSUME NEW ms \in Sources, Run(ms)
      PROVE  KeysInv'
  BY <1>3 DEF Run, KeysInv
<1>4. CASE EndResolve
  <2> SUFFICES ASSUME stage' = "references" PROVE Completes(pending', messages', PassedKeys')
    BY <1>4 DEF EndResolve, EndStage, KeysInv
  <2>1. /\ stage = "resolve" /\ at > Len(messages) /\ errors = {} /\ at' = 1 /\ atKey' = atKey
        /\ messages' = messages /\ pending' = pending
    BY <1>4 DEF EndResolve, EndStage
  <2>2. /\ at \in Nat /\ at <= Len(messages) + 1 /\ Len(pending) = at - 1 /\ atKey = 1
        /\ \A k \in DOMAIN pending : pending[k] = messages[k]
    BY <1>1, <2>1 DEF RunInv
  <2>3. /\ Len(messages) \in Nat /\ DOMAIN messages = 1..Len(messages)
        /\ DOMAIN pending = 1..Len(pending)
        /\ \A k \in DOMAIN messages : messages[k].foreignKeys \in Seq(ForeignKeyPlan)
    BY <1>1, RequestFacts, LenProperties DEF RunInv
  <2>4. \A k \in DOMAIN messages : pending[k] = messages[k]
    BY <2>1, <2>2, <2>3
  <2>5. PassedKeys' = { ab \in AllKeys : ab[1] < 1 \/ (ab[1] = 1 /\ ab[2] < 1) }
    BY <2>1, <2>2 DEF PassedKeys
  <2>6. \A a \in DOMAIN messages : \A b \in DOMAIN messages[a].foreignKeys :
           <<a, b>> \notin PassedKeys'
    <3> TAKE a \in DOMAIN messages
    <3> TAKE b \in DOMAIN messages[a].foreignKeys
    <3>1. b \in 1..Len(messages[a].foreignKeys) /\ Len(messages[a].foreignKeys) \in Nat
      BY <2>3, LenProperties
    <3> QED
      BY <2>3, <2>5, <3>1
  <2> DEFINE K == PassedKeys'
  <2> HIDE DEF K
  <2>7. Completes(pending, messages, K)
    BY <1>2, <2>4, <2>6, NoneCompleted DEF K
  <2> QED
    BY <2>1, <2>7 DEF K
<1>5. CASE CompleteForeignKey
  <2>1. /\ stage = "references" /\ stage' = "references" /\ messages' = messages
        /\ at' = at /\ atKey' = atKey + 1
        /\ errors' = IF FKAccepted(pending, at, atKey) THEN errors
                                                       ELSE errors \cup {<<at, atKey>>}
    BY <1>5 DEF CompleteForeignKey
  <2> SUFFICES ASSUME errors' = {} PROVE Completes(pending', messages', PassedKeys')
    BY <2>1 DEF KeysInv
  <2>2. errors = {} /\ FKAccepted(pending, at, atKey)
    BY <2>1
  <2>3. Completes(pending, messages, PassedKeys)
    BY <1>1, <2>1, <2>2 DEF KeysInv
  <2>4. /\ at \in DOMAIN pending /\ atKey \in DOMAIN pending[at].foreignKeys
        /\ pending' = CompleteFK(pending, at, atKey)
    BY <1>1, <1>5, NextKey
  <2>5. /\ pending \in Seq(ResourcePlan) /\ DOMAIN messages = DOMAIN pending
        /\ \A k \in DOMAIN messages :
              /\ SameDeclaration(pending[k], messages[k])
              /\ DOMAIN pending[k].foreignKeys = DOMAIN messages[k].foreignKeys
              /\ DOMAIN pending[k].foreignKeys = 1..Len(pending[k].foreignKeys)
              /\ Len(pending[k].foreignKeys) \in Nat
        /\ DOMAIN pending = 1..Len(pending) /\ Len(pending) \in Nat
    BY <1>1, <2>1, PlansOfMessages
  <2>6. at \in Nat /\ atKey \in Nat
    BY <1>1 DEF RunInv
  <2>7. <<at, atKey>> \notin PassedKeys
    BY <2>1, <2>6 DEF PassedKeys
  <2>8. Resolvable(pending, pending[at], pending[at].foreignKeys[atKey])
    BY <2>2 DEF FKAccepted
  <2> DEFINE K == PassedKeys
             L == PassedKeys'
             i == at
             j == atKey
             new == pending'
             plans == pending
             ms == messages
  <2>9. L = { ab \in AllKeys : ab[1] < i \/ (ab[1] = i /\ ab[2] < j + 1) }
    BY <2>1 DEF PassedKeys
  <2>10. K = { ab \in AllKeys : ab[1] < i \/ (ab[1] = i /\ ab[2] < j) }
    BY <2>1 DEF PassedKeys
  <2>11. \A a \in DOMAIN ms : \A b \in DOMAIN ms[a].foreignKeys :
            <<a, b>> \in K \cup {<<i, j>>} <=> <<a, b>> \in L
    <3> TAKE a \in DOMAIN ms
    <3> TAKE b \in DOMAIN ms[a].foreignKeys
    <3>1. a \in Nat /\ b \in Nat
      BY <2>5
    <3> HIDE DEF K, L
    <3> QED
      BY <2>6, <2>9, <2>10, <3>1 DEF AllKeys
  <2> HIDE DEF K, L, i, j, new, plans, ms
  <2>12. Completes(new, ms, K \cup {<<i, j>>})
    <3>1. /\ ms \in Sources \cup {<<>>} /\ plans \in Seq(ResourcePlan)
          /\ DOMAIN plans = DOMAIN ms
      BY <1>2, <2>5 DEF ms, plans
    <3>2. \A k \in DOMAIN ms : /\ SameDeclaration(plans[k], ms[k])
                               /\ DOMAIN plans[k].foreignKeys = DOMAIN ms[k].foreignKeys
      BY <2>5 DEF ms, plans
    <3>3. Completes(plans, ms, K)
      BY <2>3 DEF ms, plans, K
    <3>4. i \in DOMAIN ms /\ j \in DOMAIN ms[i].foreignKeys /\ <<i, j>> \notin K
      BY <2>4, <2>5, <2>7 DEF i, j, ms, K
    <3>5. Resolvable(plans, plans[i], plans[i].foreignKeys[j]) /\ new = CompleteFK(plans, i, j)
      BY <2>4, <2>8 DEF plans, i, j, new
    <3> QED
      BY <3>1, <3>2, <3>3, <3>4, <3>5, OneMoreKey
  <2>13. Completes(new, ms, L)
    BY <2>11, <2>12, SameKeys
  <2> QED
    BY <2>1, <2>13 DEF new, ms, L
<1>6. CASE NextPlan \/ EndReferences
  <2>1. /\ stage = "references" /\ messages' = messages /\ pending' = pending
        /\ NextPlan => /\ stage' = "references" /\ errors' = errors
                       /\ at <= Len(pending) /\ atKey > Len(pending[at].foreignKeys)
                       /\ at' = at + 1 /\ atKey' = 1
        /\ EndReferences => /\ stage' = IF errors = {} THEN "emit" ELSE "failed"
                            /\ at > Len(pending)
    BY <1>6 DEF NextPlan, EndReferences, EndStage
  <2> SUFFICES ASSUME errors = {} PROVE Completes(pending', messages', PassedKeys')
    BY <1>6, <2>1 DEF KeysInv
  <2>2. Completes(pending, messages, PassedKeys)
    BY <1>1, <2>1 DEF KeysInv
  <2>3. /\ DOMAIN messages = DOMAIN pending
        /\ \A k \in DOMAIN messages :
              /\ DOMAIN pending[k].foreignKeys = DOMAIN messages[k].foreignKeys
              /\ DOMAIN pending[k].foreignKeys = 1..Len(pending[k].foreignKeys)
              /\ Len(pending[k].foreignKeys) \in Nat
        /\ DOMAIN pending = 1..Len(pending) /\ Len(pending) \in Nat
    BY <1>1, <2>1, PlansOfMessages
  <2>4. at \in Nat \ {0} /\ atKey \in Nat
    BY <1>1 DEF RunInv
  <2>5. PassedKeys = { ab \in AllKeys : ab[1] < at \/ (ab[1] = at /\ ab[2] < atKey) }
    BY <2>1 DEF PassedKeys
  <2>6. ASSUME NEW a \in DOMAIN messages, NEW b \in DOMAIN messages[a].foreignKeys
        PROVE  <<a, b>> \in PassedKeys <=> <<a, b>> \in PassedKeys'
    <3>1. /\ a \in 1..Len(pending) /\ b \in 1..Len(pending[a].foreignKeys)
          /\ Len(pending[a].foreignKeys) \in Nat
      BY <2>3
    <3>2. CASE NextPlan
      <4>1. PassedKeys' =
               { ab \in AllKeys : ab[1] < at + 1 \/ (ab[1] = at + 1 /\ ab[2] < 1) }
        BY <2>1, <3>2 DEF PassedKeys
      <4>2. a = at => b < atKey
        BY <2>1, <2>4, <3>1, <3>2
      <4> QED
        BY <2>4, <2>5, <3>1, <4>1, <4>2 DEF AllKeys
    <3>3. CASE EndReferences
      <4>1. PassedKeys' = AllKeys
        BY <2>1, <3>3 DEF PassedKeys
      <4>2. a < at
        BY <2>1, <2>3, <2>4, <3>1, <3>3
      <4> QED
        BY <2>5, <3>1, <4>1, <4>2 DEF AllKeys
    <3> QED
      BY <1>6, <3>2, <3>3
  <2> DEFINE K == PassedKeys
             L == PassedKeys'
  <2>7. \A a \in DOMAIN messages : \A b \in DOMAIN messages[a].foreignKeys :
           <<a, b>> \in K <=> <<a, b>> \in L
    BY <2>6
  <2>8. Completes(pending, messages, K)
    BY <2>2
  <2> HIDE DEF K, L
  <2>9. Completes(pending, messages, L)
    BY <2>7, <2>8, SameKeys
  <2> QED
    BY <2>1, <2>9 DEF L
<1>7. CASE ResolveMessage
  BY <1>7 DEF ResolveMessage, KeysInv
<1>8. CASE EmitPlan \/ EndEmit \/ SortDir \/ CycleFound \/ ApplyFile \/ NextDir
  <2>1. /\ messages' = messages /\ pending' = pending
        /\ stage \in {"emit", "apply"} /\ stage' # "references"
    BY <1>8 DEF EmitPlan, EndEmit, EndStage, SortDir, CycleFound, ApplyFile, NextDir
  <2>2. PassedKeys = AllKeys /\ PassedKeys' = AllKeys
    BY <2>1 DEF PassedKeys
  <2> QED
    BY <1>1, <2>1, <2>2 DEF KeysInv
<1>9. CASE SortStep \/ UNCHANGED vars
  <2>1. UNCHANGED <<messages, pending, stage, errors, at, atKey>>
    BY <1>9 DEF SortStep, vars, runVars
  <2>2. PassedKeys' = PassedKeys
    BY <2>1 DEF PassedKeys
  <2> QED
    BY <1>1, <2>1, <2>2 DEF KeysInv
<1> QED
  BY <1>3, <1>4, <1>5, <1>6, <1>7, <1>8, <1>9 DEF Next, Step

\* When no reference has failed, every plan is what a run makes of its message.
LEMMA PlanIsMade ==
    ASSUME RunInv, PlansInv, KeysInv, stage \in {"emit", "apply", "done"},
           NEW k \in DOMAIN pending
    PROVE  messages \in Sources /\ k \in DOMAIN messages /\ MadeOf(pending[k], messages, k)
<1>1. /\ k \in DOMAIN messages /\ pending[k] \in ResourcePlan
      /\ SameDeclaration(pending[k], messages[k]) /\ ValidPlan(messages[k])
      /\ DOMAIN messages[k].foreignKeys = 1..Len(pending[k].foreignKeys)
      /\ k \in Nat
  BY PlansOfMessages
<1>2. messages \in Sources
  BY <1>1 DEF RunInv
<1>3. Completes(pending, messages, AllKeys)
  BY DEF KeysInv, PassedKeys
<1>4. \A b \in DOMAIN messages[k].foreignKeys : <<k, b>> \in AllKeys
  BY <1>1 DEF AllKeys
<1>5. \A b \in DOMAIN messages[k].foreignKeys :
         CompletionOf(messages, messages[k], messages[k].foreignKeys[b], pending[k].foreignKeys[b])
  BY <1>1, <1>3, <1>4 DEF Completes
<1>6. HasSupplementals(pending[k].supplementals, messages[k], Wanted(messages, AllKeys, k))
  BY <1>1, <1>3 DEF Completes
<1> QED
  BY <1>1, <1>2, <1>5, <1>6 DEF MadeOf

\* The files are made of what the runs were given.
LEMMA NextKeepsDisk ==
    ASSUME GenInv, [Next]_vars
    PROVE  DiskInv'
<1>1. RunInv /\ PlansInv /\ KeysInv /\ DiskInv
  BY DEF GenInv
<1>2. ASSUME disk' = disk, messages' = messages, runs' = runs
      PROVE  DiskInv'
  BY <1>1, <1>2 DEF DiskInv, FileMadeBy
<1>3. ASSUME NEW ms \in Sources, Run(ms)
      PROVE  DiskInv'
  <2>1. disk' = disk /\ runs < MaxRuns /\ runs' = runs + 1 /\ runs \in Nat
    BY <1>1, <1>3 DEF Run, RunInv
  <2>2. MaxRuns <= 1 => disk = <<>> /\ DOMAIN disk = {}
    BY <1>1, <2>1, MaxRunsAssumption DEF DiskInv
  <2> QED
    BY <1>1, <2>1, <2>2 DEF DiskInv, FileMadeBy
<1>4. CASE EmitPlan
  <2> DEFINE p == pending[at]
             path == PathOf(p)
             text == RenderSchemaSQL(p)
  <2>1. /\ stage = "emit" /\ at <= Len(pending) /\ messages' = messages /\ runs' = runs
        /\ disk' = [q \in DOMAIN disk \cup {path} |-> IF q = path THEN text ELSE disk[q]]
    BY <1>4 DEF EmitPlan
  <2>2. at \in DOMAIN pending
    BY <1>1, <2>1, PlansOfMessages DEF RunInv
  <2>3. messages \in Sources /\ at \in DOMAIN messages /\ MadeOf(p, messages, at)
    BY <1>1, <2>1, <2>2, PlanIsMade
  <2>4. p \in ResourcePlan
    BY <2>3 DEF MadeOf
  <2> HIDE DEF path, text, p
  <2>5. /\ DOMAIN disk' = DOMAIN disk \cup {path}
        /\ disk'[path] = text
        /\ \A q \in DOMAIN disk : q # path => disk'[q] = disk[q]
    BY <2>1
  <2>6. IsFiniteSet(DOMAIN disk')
    BY <1>1, <2>5, FS_AddElement DEF DiskInv
  <2>7. disk' = [q \in DOMAIN disk' |-> disk'[q]]
    BY <2>1
  <2>8. ASSUME NEW q \in DOMAIN disk'
        PROVE  \E ms \in Sources : FileMadeBy(q, ms)' /\ (MaxRuns <= 1 => ms = messages')
    <3>1. CASE q = path
      <4>1. FileMadeBy(q, messages)'
        <5>1. \E i \in DOMAIN messages : \E r \in ResourcePlan :
                 MadeOf(r, messages, i) /\ q = PathOf(r) /\ disk'[q] = RenderSchemaSQL(r)
          BY <2>3, <2>4, <2>5, <3>1 DEF path, text
        <5> QED
          BY <2>1, <5>1 DEF FileMadeBy
      <4> QED
        BY <2>1, <2>3, <4>1
    <3>2. CASE q # path
      <4>1. q \in DOMAIN disk /\ disk'[q] = disk[q]
        BY <2>5, <3>2
      <4>2. PICK ms \in Sources : FileMadeBy(q, ms) /\ (MaxRuns <= 1 => ms = messages)
        BY <1>1, <4>1 DEF DiskInv
      <4>3. FileMadeBy(q, ms)'
        BY <4>1, <4>2 DEF FileMadeBy
      <4> QED
        BY <2>1, <4>2, <4>3
    <3> QED
      BY <3>1, <3>2
  <2>9. runs' # 0
    BY <1>1, <2>1 DEF RunInv
  <2> QED
    BY <2>6, <2>7, <2>8, <2>9 DEF DiskInv
<1>5. CASE \/ ResolveMessage \/ EndResolve \/ CompleteForeignKey \/ NextPlan \/ EndReferences
           \/ EndEmit \/ SortDir \/ SortStep \/ CycleFound \/ ApplyFile \/ NextDir
           \/ UNCHANGED vars
  <2>1. disk' = disk /\ messages' = messages /\ runs' = runs
    BY <1>5 DEF ResolveMessage, EndResolve, CompleteForeignKey, NextPlan, EndReferences,
                EndEmit, SortDir, SortStep, CycleFound, ApplyFile, NextDir, vars, runVars
  <2> QED
    BY <1>2, <2>1
<1> QED
  BY <1>3, <1>4, <1>5 DEF Next, Step

\* No two tables of a catalog have one name.
DistinctTables(catalog) == \A t, u \in TablesOf(catalog) : t.name = u.name => t = u

\* The next directory is one of those left.
LEMMA ThisDirIsLeft ==
    ASSUME RunInv, ApplyInv, dirs # {}
    PROVE  ThisDir \in dirs
<1>1. dirs \subseteq Nat
  <2>1. \A p \in Range(pending) : p.dir \in Nat
    <3>1. \A p \in ResourcePlan : p.dir \in Nat
      BY DEF ResourcePlan
    <3>2. Range(pending) \subseteq ResourcePlan
      BY SeqIsSeq DEF RunInv
    <3> QED
      BY <3>1, <3>2
  <2> QED
    BY <2>1 DEF ApplyInv
<1>2. \E d \in dirs : \A e \in dirs : d <= e
  BY <1>1, NatLeast
<1> QED
  BY <1>2 DEF ThisDir

\* A file that is accepted adds a table that is not there.
LEMMA AcceptedFile ==
    ASSUME NEW p \in ResourcePlan, NEW catalog, DistinctTables(catalog),
           AcceptsFile(catalog, RenderSchemaSQL(p))
    PROVE  DistinctTables(catalog \cup Range(RenderSchemaSQL(p)))
<1> DEFINE text == RenderSchemaSQL(p)
           t == CreateTable(p)
<1>1. TablesOf(Range(text)) = {t} /\ t \in Range(text) /\ t.op = "table"
  BY OneTablePerFile DEF TablesOf
<1> HIDE DEF text, t
<1>2. PICK k \in DOMAIN text : text[k] = t
  BY <1>1 DEF Range
<1>3. AcceptsTable(catalog \cup { text[l] : l \in 1..(k - 1) }, t)
  BY <1>1, <1>2 DEF AcceptsFile, text
<1>4. \A u \in TablesOf(catalog) : u.name # t.name
  BY <1>3 DEF AcceptsTable, RelationNames, TablesOf
<1>5. TablesOf(catalog \cup Range(text)) = TablesOf(catalog) \cup {t}
  BY <1>1 DEF TablesOf
<1> QED
  BY <1>4, <1>5 DEF DistinctTables, text

\* Directories are applied one after the other, each to an empty database.
LEMMA NextKeepsApply ==
    ASSUME GenInv, [Next]_vars
    PROVE  ApplyInv'
<1>1. TopoInv /\ RunInv /\ DiskInv /\ ApplyInv
  BY DEF GenInv
<1>2. /\ status \in {"idle", "sorting", "sorted", "cycle"}
      /\ out \in Seq(Indices(files)) /\ Len(out) \in Nat /\ DOMAIN out = 1..Len(out)
  BY <1>1, LenProperties DEF TopoInv, TopoTypeOK
<1>3. at \in Nat \ {0} /\ Len(pending) \in Nat /\ DOMAIN pending = 1..Len(pending)
  BY <1>1, LenProperties DEF RunInv
<1> DEFINE Early == {"idle", "resolve", "references", "emit"}
<1>4. ASSUME stage' \in Early \cup {"done", "failed"}, stage' = "failed" => at' = 1,
             dirs' = {}, db' = {}, status' = "idle", out' = out
      PROVE  ApplyInv'
  BY <1>2, <1>4 DEF ApplyInv, TablesOf
<1>5. stage \in Early => dirs = {} /\ db = {} /\ status = "idle"
  BY <1>1 DEF ApplyInv
<1>6. ASSUME NEW ms \in Sources, Run(ms)
      PROVE  ApplyInv'
  BY <1>4, <1>6 DEF Run
<1>7. CASE ResolveMessage \/ EndResolve \/ CompleteForeignKey \/ NextPlan \/ EndReferences \/ EmitPlan
  <2>1. /\ stage \in Early
        /\ stage' \in Early \cup {"done", "failed"} /\ (stage' = "failed" => at' = 1)
        /\ dirs' = dirs /\ db' = db /\ status' = status /\ out' = out
    BY <1>7 DEF ResolveMessage, EndResolve, CompleteForeignKey, NextPlan, EndReferences,
                EmitPlan, EndStage, topoVars
  <2> QED
    BY <1>4, <1>5, <2>1
<1>8. CASE EndEmit
  <2>1. /\ stage \in Early /\ at' = 1 /\ pending' = pending /\ db' = db /\ disk' = disk
        /\ status' = status /\ out' = out /\ files' = files
        /\ dirs' = IF errors = {} THEN { p.dir : p \in Range(pending) } ELSE {}
        /\ stage' = IF errors # {} THEN "failed" ELSE IF pending = <<>> THEN "done" ELSE "apply"
    BY <1>8 DEF EndEmit, EndStage, topoVars
  <2>2. CASE errors # {} \/ pending = <<>>
    <3>1. Range(<<>>) = {}
      BY DEF Range
    <3>2. dirs' = {}
      BY <2>1, <2>2, <3>1
    <3> QED
      BY <1>4, <1>5, <2>1, <2>2, <3>2
  <2>3. CASE errors = {} /\ pending # <<>>
    <3>1. Range(pending) # {}
      <4>1. 1 \in DOMAIN pending
        BY <1>1, <1>3, <2>3, EmptySeq DEF RunInv
      <4> QED
        BY <4>1 DEF Range
    <3>2. /\ stage' = "apply" /\ dirs' = { p.dir : p \in Range(pending') } /\ dirs' # {}
          /\ db' = {} /\ status' = "idle"
      BY <1>5, <2>1, <2>3, <3>1
    <3>3. at' = 1 /\ at' <= Len(out') + 1
      BY <1>2, <2>1
    <3>4. TablesOf(db') = {}
      BY <3>2 DEF TablesOf
    <3>5. stage' \notin Early \cup {"done"}
      BY <3>2
    <3> HIDE DEF Early
    <3>6. /\ stage' \notin {"idle", "resolve", "references", "emit", "done"}
          /\ dirs' \subseteq { p.dir : p \in Range(pending') }
      BY <3>2, <3>5 DEF Early
    <3> QED
      BY <3>2, <3>3, <3>4, <3>6 DEF ApplyInv
  <2> QED
    BY <2>2, <2>3
<1>9. CASE SortDir
  <2>1. /\ stage = "apply" /\ status = "idle" /\ db' = {}
        /\ UNCHANGED <<stage, pending, at, disk, dirs>>
    BY <1>9 DEF SortDir, Begin
  <2>2. Len(files') = Len(Discovered(ThisDir)) /\ status' = "sorting" /\ out' = <<>>
    BY <1>1, <1>9, SortDirBegins
  <2>3. Discovered(ThisDir)' = Discovered(ThisDir)
    BY <2>1 DEF Discovered, ThisDir
  <2>4. MadeOfFiles(ThisDir)'
    BY <2>1 DEF MadeOfFiles
  <2>5. at' = 1 /\ dirs' # {} /\ dirs' \subseteq { p.dir : p \in Range(pending') }
    BY <1>1, <2>1 DEF ApplyInv
  <2> QED
    BY <2>1, <2>2, <2>3, <2>4, <2>5 DEF ApplyInv, TablesOf
<1>10. CASE SortStep
  <2>1. /\ UNCHANGED <<stage, pending, at, disk, dirs, db>>
        /\ status = "sorting" /\ status' \in {"sorting", "sorted", "cycle"} /\ files' = files
        /\ Len(out') \in Nat
    <3>1. ASSUME NEW i \in ready, Emit(i)
          PROVE  Len(out') \in Nat
      <4>1. out' = Append(out, i)
        BY <3>1 DEF Emit
      <4>2. out \in Seq(Indices(files)) /\ i \in Indices(files)
        BY <1>1, <1>2 DEF TopoInv, TopoTypeOK
      <4> QED
        BY <4>1, <4>2, AppendProperties, LenProperties
    <3>2. Finish => Len(out') \in Nat
      BY <1>2 DEF Finish
    <3> QED
      BY <1>10, <3>1, <3>2 DEF SortStep, runVars, Emit, Finish
  <2>2. /\ Discovered(ThisDir)' = Discovered(ThisDir)
        /\ MadeOfFiles(ThisDir)' <=> MadeOfFiles(ThisDir)
        /\ \A d : MadeOfFiles(d)' <=> MadeOfFiles(d)
    BY <2>1 DEF Discovered, ThisDir, MadeOfFiles
  <2>3. stage = "apply" /\ at = 1
    BY <1>1, <2>1 DEF ApplyInv
  <2>4. at' <= Len(out') + 1
    BY <2>1, <2>3
  <2>5. MadeOfFiles(ThisDir)' /\ Len(files') = Len(Discovered(ThisDir)')
    BY <1>1, <2>1, <2>2, <2>3 DEF ApplyInv
  <2>6. DistinctTables(db')
    BY <1>1, <2>1 DEF ApplyInv, DistinctTables
  <2>7. db' # {} => \E d \in { p.dir : p \in Range(pending') } : MadeOfFiles(d)'
    BY <1>1, <2>1, <2>2 DEF ApplyInv
  <2>8. dirs' # {} /\ dirs' \subseteq { p.dir : p \in Range(pending') }
    BY <1>1, <2>1, <2>3 DEF ApplyInv
  <2> QED
    BY <2>1, <2>3, <2>4, <2>5, <2>6, <2>7, <2>8 DEF ApplyInv, DistinctTables
<1>11. CASE CycleFound
  <2>1. /\ stage = "apply" /\ status = "cycle" /\ stage' = "failed"
        /\ UNCHANGED <<pending, at, disk, dirs, db, status, files, out>>
    BY <1>11 DEF CycleFound, topoVars
  <2>2. \A d : MadeOfFiles(d)' <=> MadeOfFiles(d)
    BY <2>1 DEF MadeOfFiles
  <2> QED
    BY <1>1, <2>1, <2>2 DEF ApplyInv
<1>12. CASE ApplyFile
  <2> DEFINE path == Discovered(ThisDir)[out[at]]
             file == disk[path]
  <2>1. /\ stage = "apply" /\ status = "sorted" /\ at <= Len(out)
        /\ UNCHANGED <<pending, disk, dirs, status, files, out>>
    BY <1>12 DEF ApplyFile, topoVars
  <2>2. Discovered(ThisDir)' = Discovered(ThisDir) /\ ThisDir' = ThisDir
    BY <2>1 DEF Discovered, ThisDir
  <2>3. Len(files) = Len(Discovered(ThisDir)) /\ MadeOfFiles(ThisDir) /\ dirs # {}
    BY <1>1, <2>1 DEF ApplyInv
  <2>4. CASE ~AcceptsFile(db, file)
    <3>1. stage' = "failed" /\ UNCHANGED <<db, at>>
      BY <1>12, <2>4 DEF ApplyFile
    <3>2. \A d : MadeOfFiles(d)' <=> MadeOfFiles(d)
      BY <2>1, <3>1 DEF MadeOfFiles
    <3> QED
      BY <1>1, <2>1, <3>1, <3>2 DEF ApplyInv
  <2>5. CASE AcceptsFile(db, file)
    <3>1. db' = db \cup Range(file) /\ at' = at + 1 /\ stage' = stage
      BY <1>12, <2>5 DEF ApplyFile
    <3>2. path \in DOMAIN disk /\ path.dir = ThisDir
      <4>1. out[at] \in Indices(files)
        BY <1>2, <1>3, <2>1, ElementOfSeq
      <4>2. DOMAIN Discovered(ThisDir) = 1..Len(Discovered(ThisDir))
        BY <1>1, DiscoveredFiles
      <4>3. out[at] \in DOMAIN Discovered(ThisDir)
        BY <2>3, <4>1, <4>2 DEF Indices
      <4> QED
        BY <1>1, <4>3, DiscoveredFiles
    <3> HIDE DEF path
    <3>3. PICK p \in ResourcePlan : file = RenderSchemaSQL(p)
      BY <1>1, <3>2 DEF DiskInv, FileMadeBy
    <3>4. DistinctTables(db')
      <4>1. DistinctTables(db)
        BY <1>1 DEF ApplyInv, DistinctTables
      <4> QED
        BY <2>5, <3>1, <3>3, <4>1, AcceptedFile
    <3>5. MadeOfFiles(ThisDir)'
      <4> SUFFICES ASSUME NEW s \in db'
                   PROVE  \E q \in DOMAIN disk : /\ q.dir = ThisDir
                                                 /\ s \in Range(disk[q])
                                                 /\ Range(disk[q]) \subseteq db'
        BY <2>1, <2>2 DEF MadeOfFiles
      <4>1. CASE s \in db
        BY <2>3, <3>1, <4>1 DEF MadeOfFiles
      <4>2. CASE s \in Range(file)
        BY <3>1, <3>2, <4>2
      <4> QED
        BY <3>1, <4>1, <4>2
    <3>6. ThisDir \in { p1.dir : p1 \in Range(pending) }
      BY <1>1, <2>3, ThisDirIsLeft DEF ApplyInv
    <3>7. \E d \in { p1.dir : p1 \in Range(pending') } : MadeOfFiles(d)'
      <4>1. \A d : d = ThisDir => MadeOfFiles(d)'
        BY <2>2, <3>5 DEF MadeOfFiles
      <4> QED
        BY <2>1, <3>6, <4>1
    <3>8. at' <= Len(out') + 1
      BY <1>2, <1>3, <2>1, <3>1
    <3>9. dirs' # {} /\ dirs' \subseteq { p1.dir : p1 \in Range(pending') }
      BY <1>1, <2>1, <2>3 DEF ApplyInv
    <3>10. Len(files') = Len(Discovered(ThisDir)')
      BY <2>1, <2>2, <2>3
    <3> QED
      BY <2>1, <3>1, <3>4, <3>5, <3>7, <3>8, <3>9, <3>10 DEF ApplyInv, DistinctTables
  <2> QED
    BY <2>4, <2>5
<1>13. CASE NextDir
  <2>1. /\ stage = "apply" /\ dirs' = dirs \ {ThisDir} /\ at' = 1 /\ status' = "idle"
        /\ stage' = IF dirs' = {} THEN "done" ELSE "apply"
        /\ UNCHANGED <<pending, disk, db, files, out>>
    BY <1>13 DEF NextDir
  <2>2. \A d : MadeOfFiles(d)' <=> MadeOfFiles(d)
    BY <2>1 DEF MadeOfFiles
  <2>3. DistinctTables(db')
    BY <1>1, <2>1 DEF ApplyInv, DistinctTables
  <2>4. db' # {} => \E d \in { p.dir : p \in Range(pending') } : MadeOfFiles(d)'
    BY <1>1, <2>1, <2>2 DEF ApplyInv
  <2>5. dirs' \subseteq { p.dir : p \in Range(pending') }
    BY <1>1, <2>1 DEF ApplyInv
  <2> QED
    BY <1>2, <2>1, <2>3, <2>4, <2>5 DEF ApplyInv, DistinctTables
<1>14. CASE UNCHANGED vars
  <2>1. UNCHANGED <<stage, pending, at, disk, dirs, db, status, files, out>>
    BY <1>14 DEF vars, runVars, topoVars
  <2>2. \A d : MadeOfFiles(d)' <=> MadeOfFiles(d)
    BY <2>1 DEF MadeOfFiles
  <2>3. /\ Discovered(ThisDir)' = Discovered(ThisDir)
        /\ MadeOfFiles(ThisDir)' <=> MadeOfFiles(ThisDir)
    BY <2>1 DEF Discovered, ThisDir, MadeOfFiles
  <2> QED
    BY <1>1, <2>1, <2>2, <2>3 DEF ApplyInv
<1> QED
  BY <1>6, <1>7, <1>8, <1>9, <1>10, <1>11, <1>12, <1>13, <1>14 DEF Next, Step

\* For every set of sources and every number of runs: the parts of the invariant
\* hold together, in the course of every run (main.go, RunWithReportAndVerifyOptions).
THEOREM GenInvariant == Spec => []GenInv
<1>1. Init => GenInv
  BY InitGenInv
<1>2. GenInv /\ [Next]_vars => GenInv'
  <2> SUFFICES ASSUME GenInv, [Next]_vars PROVE GenInv'
    OBVIOUS
  <2> QED
    BY NextKeepsTopo, NextKeepsRun, NextKeepsPlans, NextKeepsKeys, NextKeepsDisk, NextKeepsApply
    DEF GenInv
<1> QED
  BY <1>1, <1>2, PTL DEF Spec

---------------------------------------------------------------------------
(* What follows for the runs *)

\* The loops of a run stay within their bounds, files are applied only while a
\* directory is left, and a database is made of the files of one directory
\* (main.go).
THEOREM GeneratorIsTyped == Spec => []GenerateTypeOK
<1>1. GenInv => GenerateTypeOK
  <2> SUFFICES ASSUME GenInv PROVE GenerateTypeOK
    OBVIOUS
  <2>1. RunInv /\ ApplyInv /\ TopoInv
    BY DEF GenInv
  <2>2. Len(messages) \in Nat /\ Len(pending) \in Nat /\ Len(out) \in Nat
    BY <2>1, RequestFacts, LenProperties DEF RunInv, TopoInv, TopoTypeOK
  <2>3. at \in 1..(1 + Len(IF stage = "resolve" THEN messages
                           ELSE IF stage \in {"apply", "failed"} THEN out ELSE pending))
    <3>1. at \in Nat \ {0}
      BY <2>1 DEF RunInv
    <3>2. CASE stage = "resolve"
      BY <2>1, <2>2, <3>1, <3>2 DEF RunInv
    <3>3. CASE stage \in {"apply", "failed"}
      BY <2>1, <2>2, <3>1, <3>3 DEF ApplyInv
    <3>4. CASE stage \in {"references", "emit"}
      BY <2>1, <2>2, <3>1, <3>4 DEF RunInv
    <3>5. CASE stage \in {"idle", "done"}
      BY <2>1, <2>2, <3>1, <3>5 DEF RunInv
    <3> QED
      BY <2>1, <3>2, <3>3, <3>4, <3>5 DEF RunInv
  <2>4. stage = "references" /\ at <= Len(pending) =>
           atKey \in 1..(1 + Len(pending[at].foreignKeys))
    <3> SUFFICES ASSUME stage = "references", at <= Len(pending)
                 PROVE  atKey \in 1..(1 + Len(pending[at].foreignKeys))
      OBVIOUS
    <3>1. at \in 1..Len(pending)
      BY <2>1, <2>2 DEF RunInv
    <3>2. pending[at] \in ResourcePlan
      BY <2>1, <3>1, ElementOfSeq DEF RunInv
    <3>3. Len(pending[at].foreignKeys) \in Nat
      BY <3>2, LenProperties DEF ResourcePlan
    <3> QED
      BY <2>1, <3>3 DEF RunInv
  <2>5. db # {} => \E d \in { p.dir : p \in Range(pending) } :
           db \subseteq UNION { Range(disk[path]) : path \in { q \in DOMAIN disk : q.dir = d } }
    <3>1. \A d : MadeOfFiles(d) => db \subseteq
             UNION { Range(disk[path]) : path \in { q \in DOMAIN disk : q.dir = d } }
      BY DEF MadeOfFiles
    <3> QED
      BY <2>1, <3>1 DEF ApplyInv
  <2> QED
    BY <2>1, <2>3, <2>4, <2>5 DEF GenerateTypeOK, RunInv, ApplyInv
<1> QED
  BY <1>1, GenInvariant, PTL

\* A package that is generated starts: its lists sort by columns that validatePlan
\* let them sort by, and those are in the list schema, as long as lists sort by
\* columns that are fields (resolve.go:268; pkg/aip/jet/schema.go, NewSchema).
THEOREM SchemasStart == ASSUME OrderedByFields PROVE Spec => []AcceptedSchemasStart
<1>1. GenInv => AcceptedSchemasStart
  <2> SUFFICES ASSUME GenInv, stage = "done", NEW p \in Range(pending)
               PROVE  Lists!Validate(ListSchemaOf(p))
    BY DEF AcceptedSchemasStart
  <2>1. RunInv /\ PlansInv /\ KeysInv
    BY DEF GenInv
  <2>2. PICK k \in DOMAIN pending : p = pending[k]
    BY DEF Range
  <2>3. messages \in Sources /\ k \in DOMAIN messages /\ MadeOf(p, messages, k)
    BY <2>1, <2>2, PlanIsMade
  <2> DEFINE m == messages[k]
             listed == { d.name : d \in { e \in Range(p.columns) :
                                            e.orderable /\ ~SynthesizedColumn(e) } }
  <2>4. /\ p \in ResourcePlan /\ p.columns = m.columns
        /\ p.defaultOrder = m.defaultOrder /\ p.tieBreaker = m.tieBreaker
        /\ ValidOrder(m) /\ m \in Range(messages)
    BY <2>3 DEF MadeOf, SameDeclaration, ValidPlan, Range
  <2>5. Range(p.defaultOrder \o p.tieBreaker) \subseteq listed
    <3> SUFFICES ASSUME NEW x \in Range(p.defaultOrder \o p.tieBreaker)
                 PROVE  x \in listed
      OBVIOUS
    <3>1. PICK c \in Range(m.columns) : c.name = x /\ (c.orderable \/ SynthesizedColumn(c))
      BY <2>4 DEF ValidOrder
    <3>2. ~SynthesizedColumn(c)
      BY <2>3, <2>4, <3>1 DEF OrderedByFields
    <3> QED
      BY <2>4, <3>1, <3>2
  <2> HIDE DEF listed, m
  <2>6. /\ p.defaultOrder \in Seq(Words) /\ p.tieBreaker \in Seq(Words)
    BY <2>4 DEF ResourcePlan
  <2>7. Range(p.defaultOrder \o p.tieBreaker) = Range(p.defaultOrder) \cup Range(p.tieBreaker)
    BY <2>6, RangeConcatenation
  <2> DEFINE schema == ListSchemaOf(p)
  <2>8. /\ schema.defaultPageSize = 50 /\ schema.maxPageSize = 1000
        /\ schema.fields = [c \in listed |-> [disabled |-> FALSE, wired |-> TRUE]]
        /\ schema.defaultOrder = OrderOf(p.defaultOrder)
        /\ schema.tieBreaker = OrderOf(p.tieBreaker)
    BY DEF ListSchemaOf, listed
  <2> HIDE DEF schema
  <2>9. \A s : Lists!PathsOf(OrderOf(s)) = Range(s)
    BY DEF Lists!PathsOf, OrderOf, Range
  <2>10. \A path \in listed : Lists!Orderable(schema, path)
    BY <2>8 DEF Lists!Orderable
  <2>11. \A path \in DOMAIN schema.fields : schema.fields[path].wired
    BY <2>8
  <2>12. \A path \in Lists!PathsOf(schema.defaultOrder) \cup Lists!PathsOf(schema.tieBreaker) :
            Lists!Orderable(schema, path)
    BY <2>5, <2>7, <2>8, <2>9, <2>10
  <2>13. Lists!Validate(schema)
    BY <2>8, <2>11, <2>12 DEF Lists!Validate
  <2> QED
    BY <2>13 DEF schema
<1> QED
  BY <1>1, GenInvariant, PTL

\* While the plans are emitted, the files of those before this one are written.
WrittenInv ==
    stage = "emit" =>
        \A k \in DOMAIN pending : k < at =>
            /\ PathOf(pending[k]) \in DOMAIN disk
            /\ disk[PathOf(pending[k])] = RenderSchemaSQL(pending[k])

LEMMA NextKeepsWritten ==
    ASSUME DistinctFiles, GenInv, WrittenInv, [Next]_vars
    PROVE  WrittenInv'
<1>1. RunInv /\ PlansInv /\ KeysInv
  BY DEF GenInv
<1>2. CASE EmitPlan
  <2> DEFINE path == PathOf(pending[at])
             text == RenderSchemaSQL(pending[at])
  <2>1. /\ stage = "emit" /\ at <= Len(pending) /\ pending' = pending /\ at' = at + 1
        /\ disk' = [q \in DOMAIN disk \cup {path} |-> IF q = path THEN text ELSE disk[q]]
    BY <1>2 DEF EmitPlan
  <2>2. /\ messages \in Sources /\ DOMAIN messages = DOMAIN pending
        /\ DOMAIN pending = 1..Len(pending) /\ at \in DOMAIN pending /\ Len(pending) \in Nat
        /\ \A k \in DOMAIN pending : PathOf(pending[k]) = PathOf(messages[k])
    <3>1. /\ DOMAIN messages = DOMAIN pending /\ DOMAIN pending = 1..Len(pending)
          /\ Len(pending) \in Nat
          /\ \A k \in DOMAIN pending : SameDeclaration(pending[k], messages[k])
      BY <1>1, <2>1, PlansOfMessages
    <3>2. at \in DOMAIN pending
      BY <1>1, <2>1, <3>1 DEF RunInv
    <3>3. messages \in Sources
      BY <1>1, <2>1, <3>2, PlanIsMade
    <3> QED
      BY <3>1, <3>2, <3>3 DEF PathOf, SameDeclaration
  <2> SUFFICES ASSUME NEW k \in DOMAIN pending, k < at + 1
               PROVE  /\ PathOf(pending[k]) \in DOMAIN disk'
                      /\ disk'[PathOf(pending[k])] = RenderSchemaSQL(pending[k])
    BY <2>1 DEF WrittenInv
  <2>3. CASE k = at
    BY <2>1, <2>3
  <2>4. CASE k # at
    <3>1. k < at
      BY <2>2, <2>4
    <3>2. PathOf(pending[k]) # path
      BY <2>2, <2>4 DEF DistinctFiles
    <3>3. /\ PathOf(pending[k]) \in DOMAIN disk
          /\ disk[PathOf(pending[k])] = RenderSchemaSQL(pending[k])
      BY <2>1, <3>1 DEF WrittenInv
    <3> QED
      BY <2>1, <3>2, <3>3
  <2> QED
    BY <2>3, <2>4
<1>3. CASE EndReferences
  <2> SUFFICES ASSUME stage' = "emit" PROVE WrittenInv'
    BY DEF WrittenInv
  <2>1. at' = 1 /\ pending' = pending /\ stage = "references"
    BY <1>3 DEF EndReferences, EndStage
  <2>2. DOMAIN pending = 1..Len(pending) /\ Len(pending) \in Nat
    BY <1>1, <2>1, PlansOfMessages
  <2>3. \A k \in DOMAIN pending' : ~(k < at')
    BY <2>1, <2>2
  <2> QED
    BY <2>3 DEF WrittenInv
<1>4. CASE SortStep \/ UNCHANGED vars
  <2>1. UNCHANGED <<stage, pending, at, disk>>
    BY <1>4 DEF SortStep, vars, runVars
  <2> QED
    BY <2>1 DEF WrittenInv
<1>5. ASSUME NEW ms \in Sources, Run(ms)
      PROVE  WrittenInv'
  BY <1>5 DEF Run, WrittenInv
<1>6. CASE \/ ResolveMessage \/ EndResolve \/ CompleteForeignKey \/ NextPlan \/ EndEmit
           \/ SortDir \/ CycleFound \/ ApplyFile \/ NextDir
  <2>1. stage' # "emit"
    BY <1>6 DEF ResolveMessage, EndResolve, EndStage, CompleteForeignKey, NextPlan, EndEmit,
                SortDir, CycleFound, ApplyFile, NextDir
  <2> QED
    BY <2>1 DEF WrittenInv
<1> QED
  BY <1>2, <1>3, <1>4, <1>5, <1>6 DEF Next, Step

\* When the emission ends the DDL file of every plan holds its statements, whatever
\* emission has failed, as long as no two messages have one file (main.go, the loop
\* over the plans).
THEOREM FilesAreWritten == ASSUME DistinctFiles PROVE Spec => EveryFileWritten
<1> DEFINE A == stage = "emit" /\ stage' # "emit" =>
                  \A p \in Range(pending) :
                     /\ PathOf(p) \in DOMAIN disk'
                     /\ disk'[PathOf(p)] = RenderSchemaSQL(p)
<1>1. Init => WrittenInv
  BY DEF Init, WrittenInv
<1>2. GenInv /\ WrittenInv /\ [Next]_vars => WrittenInv'
  BY NextKeepsWritten
<1>3. GenInv /\ WrittenInv /\ [Next]_vars => [A]_vars
  <2> SUFFICES ASSUME GenInv, WrittenInv, Next, stage = "emit", stage' # "emit",
                      NEW p \in Range(pending)
               PROVE  PathOf(p) \in DOMAIN disk' /\ disk'[PathOf(p)] = RenderSchemaSQL(p)
    OBVIOUS
  <2>1. at > Len(pending) /\ disk' = disk
    BY DEF Next, Step, Run, ResolveMessage, EndResolve, CompleteForeignKey, NextPlan,
           EndReferences, EmitPlan, EndEmit, SortDir, SortStep, runVars, CycleFound, ApplyFile,
           NextDir
  <2>2. PICK k \in DOMAIN pending : p = pending[k]
    BY DEF Range
  <2>3. DOMAIN pending = 1..Len(pending) /\ Len(pending) \in Nat /\ at \in Nat
    BY LenProperties DEF GenInv, RunInv
  <2>4. k < at
    BY <2>1, <2>3
  <2> QED
    BY <2>1, <2>2, <2>4 DEF WrittenInv
<1> HIDE DEF A
<1>4. Spec => [][A]_vars
  BY <1>1, <1>2, <1>3, GenInvariant, PTL DEF Spec
<1> QED
  BY <1>4 DEF A, EveryFileWritten

\* The columns of a message that need a unique are those its completed references want.
LEMMA NeededUniques ==
    ASSUME NEW ms \in Sources, NEW i \in DOMAIN ms
    PROVE  { d \in Range(ms[i].columns) : NeedsSupplemental(ms, ms[i], d) } = Wanted(ms, AllKeys, i)
<1> DEFINE m == ms[i]
<1>1. /\ \A k \in DOMAIN ms : /\ DOMAIN ms[k].foreignKeys \subseteq Nat
                              /\ ms[k].foreignKeys \in Seq(ForeignKeyPlan)
      /\ DOMAIN ms \subseteq Nat
  <2>1. DOMAIN ms = 1..Len(ms) /\ \A k \in DOMAIN ms : ms[k].foreignKeys \in Seq(ForeignKeyPlan)
    BY RequestFacts
  <2>2. \A k \in DOMAIN ms : DOMAIN ms[k].foreignKeys = 1..Len(ms[k].foreignKeys)
    BY <2>1, LenProperties
  <2> QED
    BY <2>1, <2>2
<1> SUFFICES ASSUME NEW d \in Range(m.columns)
             PROVE  NeedsSupplemental(ms, m, d) <=> d \in Wanted(ms, AllKeys, i)
  BY DEF Wanted
<1> DEFINE Refers(fk) == fk.message = m.fqn /\ fk.field = d.field
<1>2. (\E r \in Range(ms) : \E fk \in Range(r.foreignKeys) : Refers(fk)) <=>
         \E a \in DOMAIN ms : \E b \in DOMAIN ms[a].foreignKeys :
            <<a, b>> \in AllKeys /\ Refers(ms[a].foreignKeys[b])
  <2> HIDE DEF Refers
  <2>1. \A a \in DOMAIN ms : \A b \in DOMAIN ms[a].foreignKeys : <<a, b>> \in AllKeys
    BY <1>1 DEF AllKeys
  <2> QED
    BY <2>1 DEF Range
<1>3. TargetPKCoversTenantComposite(m, d.name) <=>
         ~(Range(m.primaryKey) # {m.scope[1], d.name} \/ Len(m.primaryKey) # 2)
  BY DEF TargetPKCoversTenantComposite
<1>4. d \in Wanted(ms, AllKeys, i) <=>
         /\ Scoped(m) /\ ~SynthesizedColumn(d) /\ ~d.unique
         /\ ~TargetPKCoversTenantComposite(m, d.name)
         /\ \E a \in DOMAIN ms : \E b \in DOMAIN ms[a].foreignKeys :
               <<a, b>> \in AllKeys /\ Refers(ms[a].foreignKeys[b])
  BY DEF Wanted
<1>5. NeedsSupplemental(ms, m, d) <=>
         /\ Scoped(m) /\ ~SynthesizedColumn(d) /\ ~d.unique
         /\ Range(m.primaryKey) # {m.scope[1], d.name} \/ Len(m.primaryKey) # 2
         /\ \E r \in Range(ms) : \E fk \in Range(r.foreignKeys) : Refers(fk)
  BY DEF NeedsSupplemental
<1> HIDE DEF Refers, m
<1> QED
  BY <1>2, <1>3, <1>4, <1>5

\* What the foreign keys make of the plans does not depend on the order of the
\* messages: it is what the set of them says (resolve_fk.go, resolveForeignKeys).
THEOREM ResolutionIsOrderFree == Spec => []ResolvedAsASet
<1>1. GenInv => ResolvedAsASet
  <2> SUFFICES ASSUME GenInv, stage \in {"emit", "apply", "done"}, NEW p \in Range(pending)
               PROVE  /\ { uq.columns : uq \in Range(p.supplementals) } =
                            { <<p.scope[1], c.name>> :
                                c \in { d \in Range(p.columns) : NeedsSupplemental(messages, p, d) } }
                      /\ \A k, l \in DOMAIN p.supplementals :
                            p.supplementals[k].columns = p.supplementals[l].columns => k = l
                      /\ \A fk \in Range(p.foreignKeys) :
                            \E q \in Range(messages) : \E c \in Range(q.columns) :
                                /\ q.fqn = fk.message /\ c.field = fk.field
                                /\ fk.table = q.table
                                /\ fk.target[Len(fk.target)] = c.name
                                /\ fk.local[Len(fk.local)] = fk.column
    BY DEF ResolvedAsASet
  <2>1. RunInv /\ PlansInv /\ KeysInv
    BY DEF GenInv
  <2>2. PICK i \in DOMAIN pending : p = pending[i]
    BY DEF Range
  <2>3. messages \in Sources /\ i \in DOMAIN messages /\ MadeOf(p, messages, i)
    BY <2>1, <2>2, PlanIsMade
  <2> DEFINE m == messages[i]
  <2>4. /\ p \in ResourcePlan /\ SameDeclaration(p, m)
        /\ HasSupplementals(p.supplementals, m, Wanted(messages, AllKeys, i))
        /\ \A b \in DOMAIN m.foreignKeys :
              CompletionOf(messages, m, m.foreignKeys[b], p.foreignKeys[b])
    BY <2>3 DEF MadeOf
  <2>5. /\ \A k \in DOMAIN messages :
              /\ DOMAIN messages[k].foreignKeys = 1..Len(messages[k].foreignKeys)
              /\ Len(messages[k].foreignKeys) \in Nat
              /\ messages[k].foreignKeys \in Seq(ForeignKeyPlan)
        /\ DOMAIN messages = 1..Len(messages)
        /\ DOMAIN p.foreignKeys = DOMAIN m.foreignKeys
    BY <2>1, <2>2, <2>3, PlansOfMessages
  <2>6. { d \in Range(p.columns) : NeedsSupplemental(messages, p, d) } =
           Wanted(messages, AllKeys, i)
    <3>1. \A d : NeedsSupplemental(messages, p, d) <=> NeedsSupplemental(messages, m, d)
      BY <2>4 DEF SameDeclaration, NeedsSupplemental, Scoped
    <3>2. Range(p.columns) = Range(m.columns)
      BY <2>4 DEF SameDeclaration
    <3>3. { d \in Range(m.columns) : NeedsSupplemental(messages, m, d) } =
             Wanted(messages, AllKeys, i)
      BY <2>3, NeededUniques
    <3> HIDE DEF m
    <3> QED
      BY <3>1, <3>2, <3>3
  <2> HIDE DEF m
  <2>7. /\ \A c : Supplemental(m, c).columns = <<p.scope[1], c.name>>
        /\ Range(p.supplementals) = { Supplemental(m, c) : c \in Wanted(messages, AllKeys, i) }
    BY <2>4 DEF Supplemental, HasSupplementals, SameDeclaration
  <2>8. { uq.columns : uq \in Range(p.supplementals) } =
           { <<p.scope[1], c.name>> : c \in Wanted(messages, AllKeys, i) }
    BY <2>7
  <2>9. ASSUME NEW k \in DOMAIN p.supplementals, NEW l \in DOMAIN p.supplementals,
               p.supplementals[k].columns = p.supplementals[l].columns
        PROVE  k = l
    <3>1. PICK c : p.supplementals[k] = Supplemental(m, c)
      BY <2>7 DEF Range
    <3>2. PICK d : p.supplementals[l] = Supplemental(m, d)
      BY <2>7 DEF Range
    <3>3. c.name = d.name
      BY <2>7, <2>9, <3>1, <3>2
    <3>4. Supplemental(m, c) = Supplemental(m, d)
      BY <3>3 DEF Supplemental
    <3> QED
      BY <2>4, <3>1, <3>2, <3>4 DEF HasSupplementals
  <2>10. ASSUME NEW fk \in Range(p.foreignKeys)
         PROVE  \E q \in Range(messages) : \E c \in Range(q.columns) :
                   /\ q.fqn = fk.message /\ c.field = fk.field
                   /\ fk.table = q.table
                   /\ fk.target[Len(fk.target)] = c.name
                   /\ fk.local[Len(fk.local)] = fk.column
    <3>1. PICK b \in DOMAIN m.foreignKeys : fk = p.foreignKeys[b]
      BY <2>5 DEF Range
    <3> DEFINE key == m.foreignKeys[b]
    <3>2. key \in ForeignKeyPlan
      BY <2>3, <2>5 DEF m
    <3>3. CompletionOf(messages, m, key, fk)
      BY <2>4, <3>1
    <3> HIDE DEF key
    <3>4. PICK q \in Range(messages) : \E c \in TargetColumns(q, key) :
             q.fqn = key.message /\ fk = Completed(m, key, q, c)
      BY <3>3 DEF CompletionOf
    <3>5. PICK c \in TargetColumns(q, key) :
             q.fqn = key.message /\ fk = Completed(m, key, q, c)
      BY <3>4
    <3>6. Says(fk, m, key, q, c)
      BY <3>2, <3>5, CompletedFields
    <3>7. /\ \A x : Len(<<x>>) = 1 /\ <<x>>[1] = x
          /\ \A x, y : Len(<<x, y>>) = 2 /\ <<x, y>>[2] = y
      OBVIOUS
    <3>8. c \in Range(q.columns) /\ c.field = key.field
      BY <3>5 DEF TargetColumns
    <3>9. /\ fk.column = key.column /\ fk.message = key.message /\ fk.field = key.field
          /\ fk.table = q.table
      BY <3>6 DEF Says
    <3>10. /\ fk.target[Len(fk.target)] = c.name
           /\ fk.local[Len(fk.local)] = key.column
      BY <3>6, <3>7 DEF Says
    <3> QED
      BY <3>5, <3>8, <3>9, <3>10
  <2> QED
    BY <2>6, <2>8, <2>9, <2>10
<1> QED
  BY <1>1, GenInvariant, PTL

---------------------------------------------------------------------------
(* What follows for the database *)

\* Statement s is one of the file of what a run made of message i of ms, and the
\* whole file is in the database.
AppliedFrom(s, ms, i, p) ==
    /\ ms \in Sources /\ i \in DOMAIN ms /\ MadeOf(p, ms, i)
    /\ MaxRuns <= 1 => ms = messages
    /\ s \in Range(RenderSchemaSQL(p)) /\ Range(RenderSchemaSQL(p)) \subseteq db

\* Every statement comes from a file.
LEMMA StatementOrigin ==
    ASSUME GenInv, NEW s \in db
    PROVE  \E ms, i, p : AppliedFrom(s, ms, i, p)
<1>1. DiskInv /\ ApplyInv
  BY DEF GenInv
<1>2. PICK path \in DOMAIN disk : s \in Range(disk[path]) /\ Range(disk[path]) \subseteq db
  BY <1>1 DEF ApplyInv, MadeOfFiles
<1>3. PICK ms \in Sources : FileMadeBy(path, ms) /\ (MaxRuns <= 1 => ms = messages)
  BY <1>1 DEF DiskInv
<1>4. PICK i \in DOMAIN ms : \E p \in ResourcePlan :
         MadeOf(p, ms, i) /\ disk[path] = RenderSchemaSQL(p)
  BY <1>3 DEF FileMadeBy
<1> QED
  BY <1>2, <1>3, <1>4 DEF AppliedFrom

\* A table is the one table of its file.
LEMMA TableOrigin ==
    ASSUME GenInv, NEW t \in TablesOf(db)
    PROVE  \E ms, i, p : AppliedFrom(t, ms, i, p) /\ t = CreateTable(p)
<1>1. t \in db /\ t.op = "table"
  BY DEF TablesOf
<1>2. PICK ms, i, p : AppliedFrom(t, ms, i, p)
  BY <1>1, StatementOrigin
<1>3. t \in TablesOf(Range(RenderSchemaSQL(p))) /\ p \in ResourcePlan
  BY <1>1, <1>2 DEF AppliedFrom, TablesOf, MadeOf
<1> QED
  BY <1>2, <1>3, OneTablePerFile

\* Foreign key f of a table is what a message's foreign key fk of it is made into by
\* column c of message q.
Relates(f, m, fk, q, c) ==
    /\ fk \in ForeignKeyPlan /\ q.fqn = fk.message
    /\ Scoped(m) = Scoped(q)
    /\ f.table = q.table
    /\ f.target = IF Scoped(q) THEN <<q.scope[1], c.name>> ELSE <<c.name>>
    /\ f.local = IF Scoped(q) THEN <<m.scope[1], fk.column>> ELSE <<fk.column>>

\* What a table says of its plan and of the message.
LEMMA TableFacts ==
    ASSUME NEW p, NEW ms, NEW i, NEW t, AppliedFrom(t, ms, i, p), t = CreateTable(p)
    PROVE  /\ p \in ResourcePlan /\ ms[i] \in ResourcePlan /\ ms[i] \in Range(ms)
           /\ SameDeclaration(p, ms[i]) /\ ValidPlan(ms[i])
           /\ t.name = ms[i].table /\ t.scope = Range(ms[i].scope)
           /\ t.primaryKey = ms[i].primaryKey
           /\ ms[i].scope \in Seq(Words)
           /\ \A f \in t.foreignKeys :
                 \E fk \in Range(ms[i].foreignKeys) : \E q \in Range(ms) : \E c :
                    Relates(f, ms[i], fk, q, c)
<1> DEFINE m == ms[i]
<1>1. /\ ms \in Sources /\ i \in DOMAIN ms /\ p \in ResourcePlan
      /\ SameDeclaration(p, m) /\ ValidPlan(m)
      /\ \A b \in DOMAIN m.foreignKeys : CompletionOf(ms, m, m.foreignKeys[b], p.foreignKeys[b])
  BY DEF AppliedFrom, MadeOf
<1>2. /\ m \in ResourcePlan /\ m \in Range(ms) /\ m.foreignKeys \in Seq(ForeignKeyPlan)
      /\ m.scope \in Seq(Words)
  BY <1>1, RequestFacts DEF Range
<1>3. p.foreignKeys \in Seq(ForeignKeyPlan)
  BY <1>1 DEF ResourcePlan
<1>4. /\ DOMAIN m.foreignKeys = DOMAIN p.foreignKeys
      /\ \A b \in DOMAIN m.foreignKeys : m.foreignKeys[b] \in ForeignKeyPlan
  BY <1>1, <1>2, <1>3, LenProperties, ElementOfSeq DEF SameDeclaration
<1> HIDE DEF m
<1>5. /\ t.name = m.table /\ t.scope = Range(m.scope) /\ t.primaryKey = m.primaryKey
      /\ t.foreignKeys = { [local |-> fk.local, table |-> fk.table, target |-> fk.target,
                            actions |-> fk.actions] : fk \in Range(p.foreignKeys) }
  BY <1>1 DEF CreateTable, SameDeclaration
<1>6. ASSUME NEW f \in t.foreignKeys
      PROVE  \E fk \in Range(m.foreignKeys) : \E q \in Range(ms) : \E c :
                Relates(f, m, fk, q, c)
  <2>1. PICK b \in DOMAIN m.foreignKeys :
           /\ f.local = p.foreignKeys[b].local /\ f.table = p.foreignKeys[b].table
           /\ f.target = p.foreignKeys[b].target
    BY <1>4, <1>5 DEF Range
  <2> DEFINE fk == m.foreignKeys[b]
             done == p.foreignKeys[b]
  <2>2. CompletionOf(ms, m, fk, done) /\ fk \in ForeignKeyPlan /\ fk \in Range(m.foreignKeys)
    BY <1>1, <1>4 DEF Range
  <2> HIDE DEF fk
  <2>3. PICK q \in Range(ms) : \E c \in TargetColumns(q, fk) :
           q.fqn = fk.message /\ Scoped(m) = Scoped(q) /\ done = Completed(m, fk, q, c)
    BY <2>2 DEF CompletionOf
  <2>4. PICK c \in TargetColumns(q, fk) :
           q.fqn = fk.message /\ Scoped(m) = Scoped(q) /\ done = Completed(m, fk, q, c)
    BY <2>3
  <2>5. Says(done, m, fk, q, c)
    BY <2>2, <2>4, CompletedFields
  <2>6. /\ f.table = q.table
        /\ f.target = IF Scoped(q) THEN <<q.scope[1], c.name>> ELSE <<c.name>>
        /\ f.local = IF Scoped(q) THEN <<m.scope[1], fk.column>> ELSE <<fk.column>>
    BY <2>1, <2>4, <2>5 DEF Says
  <2> QED
    BY <2>2, <2>4, <2>6 DEF Relates
<1> QED
  BY <1>1, <1>2, <1>5, <1>6 DEF m

\* A reference relates the tenant to the tenant or neither table is scoped: the two
\* sides of a foreign key are scoped alike when it is completed, and the table that
\* has the target's name is scoped as the target is as long as a table has one scope
\* (README.md:401).
THEOREM TenantsStayApart == ASSUME SettledScopes PROVE Spec => []ReferencesStayInTenant
<1>1. GenInv => ReferencesStayInTenant
  <2> SUFFICES ASSUME GenInv, NEW t \in TablesOf(db), NEW u \in TablesOf(db),
                      NEW f \in t.foreignKeys, f.table = u.name
               PROVE  /\ t.scope = {} <=> u.scope = {}
                      /\ t.scope # {} => \E k \in DOMAIN f.local :
                                            f.local[k] \in t.scope /\ f.target[k] \in u.scope
    BY DEF ReferencesStayInTenant
  <2>1. PICK ms, i, p : AppliedFrom(t, ms, i, p) /\ t = CreateTable(p)
    BY TableOrigin
  <2>2. PICK ns, j, r : AppliedFrom(u, ns, j, r) /\ u = CreateTable(r)
    BY TableOrigin
  <2>3. /\ ms \in Sources /\ ns \in Sources
        /\ MaxRuns <= 1 => ns = ms
        /\ t.scope = Range(ms[i].scope) /\ ms[i].scope \in Seq(Words)
        /\ u.scope = Range(ns[j].scope) /\ u.name = ns[j].table /\ ns[j] \in Range(ns)
    BY <2>1, <2>2, TableFacts DEF AppliedFrom
  <2>4. PICK fk, q, c : /\ fk \in Range(ms[i].foreignKeys) /\ q \in Range(ms)
                        /\ Relates(f, ms[i], fk, q, c)
    BY <2>1, TableFacts
  <2>5. /\ Scoped(ms[i]) = Scoped(q) /\ f.table = q.table
        /\ f.target = IF Scoped(q) THEN <<q.scope[1], c.name>> ELSE <<c.name>>
        /\ f.local = IF Scoped(q) THEN <<ms[i].scope[1], fk.column>> ELSE <<fk.column>>
    BY <2>4 DEF Relates
  <2>6. q.scope = ns[j].scope
    <3>1. ns \in IF MaxRuns > 1 THEN Sources ELSE {ms}
      BY <2>3, MaxRunsAssumption
    <3> QED
      BY <2>3, <2>4, <2>5, <3>1 DEF SettledScopes
  <2>7. q.scope \in Seq(Words)
    <3>1. q \in ResourcePlan
      BY <2>3, <2>4, RequestFacts DEF Range
    <3> QED
      BY <3>1 DEF ResourcePlan
  <2>8. \A s \in Seq(Words) : /\ Range(s) = {} <=> s = <<>>
                              /\ s # <<>> => s[1] \in Range(s)
    <3> TAKE s \in Seq(Words)
    <3>1. CASE s = <<>>
      BY <3>1 DEF Range
    <3>2. CASE s # <<>>
      <4>1. 1 \in DOMAIN s
        BY <3>2, LenProperties, EmptySeq
      <4> QED
        BY <3>2, <4>1 DEF Range
    <3> QED
      BY <3>1, <3>2
  <2>9. (t.scope = {} <=> u.scope = {}) /\ (t.scope = {} <=> ~Scoped(q))
    BY <2>3, <2>5, <2>6, <2>7, <2>8 DEF Scoped
  <2>10. CASE Scoped(q)
    <3>1. f.target = <<q.scope[1], c.name>> /\ f.local = <<ms[i].scope[1], fk.column>>
      BY <2>5, <2>10
    <3>2. q.scope[1] \in u.scope /\ ms[i].scope[1] \in t.scope
      BY <2>3, <2>5, <2>6, <2>7, <2>8, <2>10 DEF Scoped
    <3>3. 1 \in DOMAIN f.local /\ f.local[1] \in t.scope /\ f.target[1] \in u.scope
      BY <3>1, <3>2
    <3> QED
      BY <2>9, <2>10, <3>3
  <2> QED
    BY <2>9, <2>10
<1> QED
  BY <1>1, GenInvariant, PTL

\* The indexes of the file of what a run made of a message that are unique and not
\* partial cover the columns that scope the message.
LEMMA UniqueCoversScope ==
    ASSUME TenantScopedTargets, NEW ms \in Sources, NEW i \in DOMAIN ms, NEW p, MadeOf(p, ms, i),
           NEW x \in Range(RenderSchemaSQL(p)), x.op = "index", x.unique, ~x.where
    PROVE  Range(ms[i].scope) \subseteq Range(x.columns)
<1> DEFINE m == ms[i]
<1>1. /\ p \in ResourcePlan /\ SameDeclaration(p, m) /\ ValidPlan(m)
      /\ HasSupplementals(p.supplementals, m, Wanted(ms, AllKeys, i))
      /\ m \in Range(ms) /\ m.scope \in Seq(Words)
      /\ m.columns \in Seq(ColumnPlan)
  BY RequestFacts DEF MadeOf, Range
<1>2. p.scope = m.scope /\ p.columns = m.columns /\ p.indexes = m.indexes
  BY <1>1 DEF SameDeclaration
<1>3. \/ x \in Range(Supplementals(p)) \/ x \in Range(Indexes(p))
      \/ x \in Range(UniqueColumnIndexes(p)) \/ x \in Range(JSONBIndexes(p))
      \/ x \in Range(ForeignKeyIndexes(p))
  <2>1. CreateTable(p).op = "table"
    BY DEF CreateTable
  <2> QED
    BY <1>1, <2>1, RenderedStatements
<1>4. CASE x \in Range(Supplementals(p))
  <2>1. PICK uq \in Range(p.supplementals) : x = CreateIndex(p, uq.name, uq.columns, TRUE, FALSE)
    <3>1. Range(Supplementals(p)) =
             { CreateIndex(p, y.name, y.columns, TRUE, FALSE) : y \in Range(p.supplementals) }
      BY <1>1, RenderedIndexes
    <3> QED
      BY <1>4, <3>1
  <2>2. PICK c \in Wanted(ms, AllKeys, i) : uq = Supplemental(m, c)
    BY <1>1 DEF HasSupplementals
  <2>3. x.columns = <<m.scope[1], c.name>>
    <3>1. x.columns = uq.columns
      BY <2>1 DEF CreateIndex
    <3> QED
      BY <2>2, <3>1 DEF Supplemental
  <2>4. Len(m.scope) <= 1
    <3>1. PICK a \in DOMAIN ms : \E b \in DOMAIN ms[a].foreignKeys :
                                    ms[a].foreignKeys[b].message = m.fqn
      BY <2>2 DEF Wanted
    <3>2. PICK b \in DOMAIN ms[a].foreignKeys :
                                    ms[a].foreignKeys[b].message = m.fqn
      BY <3>1
    <3>3. ms[a] \in Range(ms) /\ ms[a].foreignKeys[b] \in Range(ms[a].foreignKeys)
      BY <3>1, <3>2 DEF Range
    <3> HIDE DEF m
    <3> QED
      BY <1>1, <3>2, <3>3 DEF TenantScopedTargets
  <2>5. Range(m.scope) \subseteq {m.scope[1]}
    <3>1. Len(m.scope) \in Nat /\ DOMAIN m.scope = 1..Len(m.scope)
      BY <1>1, LenProperties
    <3> HIDE DEF m
    <3> QED
      BY <2>4, <3>1 DEF Range
  <2>6. m.scope[1] \in Range(x.columns)
    <3>1. \A u, v : u \in Range(<<u, v>>)
      <4> TAKE u, v
      <4>1. 1 \in DOMAIN <<u, v>> /\ <<u, v>>[1] = u
        OBVIOUS
      <4> QED
        BY <4>1 DEF Range
    <3> QED
      BY <2>3, <3>1
  <2> QED
    BY <2>5, <2>6
<1>5. CASE x \in Range(Indexes(p))
  <2>1. PICK y \in Range(p.indexes) : x = CreateIndex(p, y.name, y.columns, y.unique, y.where)
    <3>1. Range(Indexes(p)) =
             { CreateIndex(p, y.name, y.columns, y.unique, y.where) : y \in Range(p.indexes) }
      BY <1>1, RenderedIndexes
    <3> QED
      BY <1>5, <3>1
  <2>2. y \in Range(m.indexes) /\ y.unique /\ ~y.where /\ x.columns = y.columns
    BY <1>2, <2>1 DEF CreateIndex
  <2> QED
    BY <1>1, <2>2 DEF ValidPlan, ValidIndexes
<1>6. CASE x \in Range(UniqueColumnIndexes(p))
  <2>1. PICK c \in Range(p.columns) :
           x = CreateIndex(p, UniqueName(p, c.name), p.scope \o <<c.name>>, TRUE, FALSE)
    <3>1. Range(UniqueColumnIndexes(p)) =
             { CreateIndex(p, UniqueName(p, c.name), p.scope \o <<c.name>>, TRUE, FALSE) :
                  c \in { d \in Range(p.columns) : d.unique } }
      BY <1>1, RenderedIndexes
    <3> QED
      BY <1>6, <3>1
  <2> DEFINE w == <<c.name>>
  <2>2. x.columns = m.scope \o w
    <3>1. x.columns = p.scope \o <<c.name>>
      BY <2>1 DEF CreateIndex
    <3> QED
      BY <1>2, <3>1
  <2>3. c.name \in Words
    <3>1. c \in ColumnPlan
      BY <1>1, <1>2, SeqIsSeq
    <3> QED
      BY <3>1 DEF ColumnPlan
  <2>4. w \in Seq(Words)
    BY <2>3
  <2> HIDE DEF w
  <2>5. Range(m.scope \o w) = Range(m.scope) \cup Range(w)
    BY <1>1, <2>4, RangeConcatenation
  <2> QED
    BY <2>2, <2>5
<1>7. CASE x \in Range(JSONBIndexes(p))
  BY <1>1, <1>7, RenderedIndexes
<1>8. CASE x \in Range(ForeignKeyIndexes(p))
  <2>1. Range(ForeignKeyIndexes(p)) =
           { CreateIndex(p, FKIndexName(p, fk.column), <<fk.column>>, FALSE, FALSE) :
                fk \in { r \in Range(p.foreignKeys) : r.backing } }
    BY <1>1, RenderedIndexes
  <2>2. \A fk : ~CreateIndex(p, FKIndexName(p, fk.column), <<fk.column>>, FALSE, FALSE).unique
    BY DEF CreateIndex
  <2> QED
    BY <1>8, <2>1, <2>2
<1> QED
  BY <1>3, <1>4, <1>5, <1>6, <1>7, <1>8

\* No row of one tenant, or user, is in the way of a row of another: unique indexes
\* cover the scope, those of a reference too as long as no message refers to one that
\* is scoped to users (resolve.go, validatePlan; emit_sql.go).
THEOREM ScopesStayApart == ASSUME TenantScopedTargets PROVE Spec => []UniquenessStaysInScope
<1>1. GenInv => UniquenessStaysInScope
  <2> SUFFICES ASSUME GenInv, NEW t \in TablesOf(db), NEW x \in IndexesOf(db),
                      x.table = t.name, x.unique, ~x.where
               PROVE  t.scope \subseteq Range(x.columns)
    BY DEF UniquenessStaysInScope
  <2>1. \A u \in TablesOf(db) : u.name = t.name => u = t
    BY DEF GenInv, ApplyInv
  <2>2. CASE \E u \in TablesOf(db) : x = PrimaryKeyIndex(u)
    <3>1. x.columns = t.primaryKey
      BY <2>1, <2>2 DEF PrimaryKeyIndex
    <3>2. PICK ms, i, p : AppliedFrom(t, ms, i, p) /\ t = CreateTable(p)
      BY TableOrigin
    <3>3. ValidPlan(ms[i]) /\ t.scope = Range(ms[i].scope) /\ t.primaryKey = ms[i].primaryKey
      BY <3>2, TableFacts
    <3> QED
      BY <3>1, <3>3 DEF ValidPlan, ValidKey
  <2>3. CASE x \in db /\ x.op = "index"
    <3>1. PICK ms, i, p : AppliedFrom(x, ms, i, p)
      BY <2>3, StatementOrigin
    <3>2. /\ ms \in Sources /\ i \in DOMAIN ms /\ MadeOf(p, ms, i) /\ p \in ResourcePlan
          /\ SameDeclaration(p, ms[i])
          /\ x \in Range(RenderSchemaSQL(p)) /\ Range(RenderSchemaSQL(p)) \subseteq db
      BY <3>1 DEF AppliedFrom, MadeOf
    <3>3. CreateTable(p).op = "table" /\ CreateTable(p) \in TablesOf(Range(RenderSchemaSQL(p)))
      BY <3>2, OneTablePerFile DEF CreateTable
    <3>4. CreateTable(p) \in TablesOf(db) /\ x.table = p.table
      BY <2>3, <3>2, <3>3, OneTablePerFile DEF TablesOf
    <3>5. CreateTable(p).name = p.table /\ CreateTable(p).scope = Range(ms[i].scope)
      BY <3>2 DEF CreateTable, SameDeclaration
    <3>6. t = CreateTable(p)
      BY <2>1, <3>4, <3>5
    <3> QED
      BY <2>3, <3>2, <3>5, <3>6, UniqueCoversScope
  <2> QED
    BY <2>2, <2>3 DEF IndexesOf
<1> QED
  BY <1>1, GenInvariant, PTL

\* A foreign key is backed by an index that leads with its column and holds every
\* row, one of its own or one that is there already, as long as none of those is
\* partial (resolve_fk.go, columnAlreadyCovered; options.proto:334).
THEOREM ReferencesAreBacked == ASSUME WholeIndexes PROVE Spec => []ForeignKeysAreBacked
<1>1. GenInv => ForeignKeysAreBacked
  <2> SUFFICES ASSUME GenInv, NEW i \in DOMAIN pending,
                      NEW fk \in Range(messages[i].foreignKeys),
                      stage \in {"apply", "done"}, fk.backing,
                      Range(RenderSchemaSQL(pending[i])) \subseteq db
               PROVE  \E x \in IndexesOf(db) :
                         x.table = pending[i].table /\ ~x.where /\ x.columns[1] = fk.column
    BY DEF ForeignKeysAreBacked
  <2> DEFINE p == pending[i]
             m == messages[i]
  <2>1. RunInv /\ PlansInv /\ KeysInv
    BY DEF GenInv
  <2>2. messages \in Sources /\ i \in DOMAIN messages /\ MadeOf(p, messages, i)
    BY <2>1, PlanIsMade
  <2>3. /\ p \in ResourcePlan /\ SameDeclaration(p, m) /\ m \in Range(messages)
        /\ m.foreignKeys \in Seq(ForeignKeyPlan) /\ m.columns \in Seq(ColumnPlan)
        /\ DOMAIN p.foreignKeys = DOMAIN m.foreignKeys
        /\ \A b \in DOMAIN m.foreignKeys :
              CompletionOf(messages, m, m.foreignKeys[b], p.foreignKeys[b])
    BY <2>1, <2>2, RequestFacts, PlansOfMessages DEF MadeOf, Range
  <2>4. \A x \in Range(RenderSchemaSQL(p)) : x.op = "index" => x \in IndexesOf(db)
    BY DEF IndexesOf
  <2>5. PICK b \in DOMAIN m.foreignKeys : fk = m.foreignKeys[b]
    BY DEF Range
  <2>6. fk \in ForeignKeyPlan
    BY <2>3, <2>5
  <2> DEFINE done == p.foreignKeys[b]
  <2>7. done \in Range(p.foreignKeys) /\ CompletionOf(messages, m, fk, done)
    BY <2>3, <2>5 DEF Range
  <2> HIDE DEF p, m, done
  <2>8. PICK q, c : Says(done, m, fk, q, c)
    <3>1. PICK q, c : done = Completed(m, fk, q, c)
      BY <2>7 DEF CompletionOf
    <3>2. Says(Completed(m, fk, q, c), m, fk, q, c)
      BY <2>6, CompletedFields
    <3> QED
      BY <3>1, <3>2
  <2>9. CASE ~ColumnAlreadyCovered(m, fk.column)
    <3> DEFINE x == CreateIndex(p, FKIndexName(p, done.column), <<done.column>>, FALSE, FALSE)
    <3>1. done.backing /\ done.column = fk.column
      BY <2>8, <2>9 DEF Says
    <3>2. Range(ForeignKeyIndexes(p)) =
             { CreateIndex(p, FKIndexName(p, r.column), <<r.column>>, FALSE, FALSE) :
                  r \in { r2 \in Range(p.foreignKeys) : r2.backing } }
      BY <2>3, RenderedIndexes
    <3>3. x \in Range(ForeignKeyIndexes(p))
      BY <2>7, <3>1, <3>2
    <3>4. x.op = "index" /\ x.table = p.table /\ x.columns = <<done.column>> /\ x.where = FALSE
      BY DEF CreateIndex
    <3> HIDE DEF x
    <3>5. x \in IndexesOf(db)
      BY <2>3, <2>4, <3>3, <3>4, RenderedStatements
    <3> QED
      BY <3>1, <3>4, <3>5 DEF p
  <2>10. CASE m.primaryKey[1] = fk.column
    <3> DEFINE t == CreateTable(p)
               x == PrimaryKeyIndex(t)
    <3>1. t \in TablesOf(db)
      <4>1. t \in Range(RenderSchemaSQL(p)) /\ t.op = "table"
        BY <2>3, RenderedStatements DEF CreateTable
      <4> QED
        BY <4>1 DEF TablesOf, p
    <3>2. t.name = p.table /\ t.primaryKey = m.primaryKey
      BY <2>3 DEF CreateTable, SameDeclaration
    <3>3. x.table = t.name /\ x.columns = t.primaryKey /\ ~x.where
      BY DEF PrimaryKeyIndex
    <3>4. x \in IndexesOf(db)
      BY <3>1 DEF IndexesOf
    <3> HIDE DEF t, x
    <3> QED
      BY <2>10, <3>2, <3>3, <3>4 DEF p
  <2>11. CASE \E y \in Range(m.indexes) : y.columns[1] = fk.column
    <3>1. PICK y \in Range(m.indexes) : y.columns[1] = fk.column
      BY <2>11
    <3>2. ~y.where
      <4>1. m \in Range(messages) /\ fk \in Range(m.foreignKeys)
        BY <2>3 DEF m
      <4> QED
        BY <2>2, <3>1, <4>1 DEF WholeIndexes
    <3>3. y \in Range(p.indexes)
      BY <2>3 DEF SameDeclaration
    <3> DEFINE x == CreateIndex(p, y.name, y.columns, y.unique, y.where)
    <3>4. Range(Indexes(p)) =
             { CreateIndex(p, z.name, z.columns, z.unique, z.where) : z \in Range(p.indexes) }
      BY <2>3, RenderedIndexes
    <3>5. x \in Range(Indexes(p))
      BY <3>3, <3>4
    <3>6. x.op = "index" /\ x.table = p.table /\ x.columns = y.columns /\ x.where = y.where
      BY DEF CreateIndex
    <3> HIDE DEF x
    <3>7. x \in IndexesOf(db)
      BY <2>3, <2>4, <3>5, <3>6, RenderedStatements
    <3> QED
      BY <3>1, <3>2, <3>6, <3>7 DEF p
  <2>12. CASE \E d \in Range(m.columns) : d.name = fk.column /\ d.unique /\ ~Scoped(m)
    <3>1. PICK d \in Range(m.columns) : d.name = fk.column /\ d.unique /\ ~Scoped(m)
      BY <2>12
    <3>2. d \in { e \in Range(p.columns) : e.unique } /\ p.scope = <<>>
      BY <2>3, <3>1 DEF SameDeclaration, Scoped
    <3> DEFINE x == CreateIndex(p, UniqueName(p, d.name), p.scope \o <<d.name>>, TRUE, FALSE)
    <3>3. Range(UniqueColumnIndexes(p)) =
             { CreateIndex(p, UniqueName(p, c1.name), p.scope \o <<c1.name>>, TRUE, FALSE) :
                  c1 \in { d1 \in Range(p.columns) : d1.unique } }
      BY <2>3, RenderedIndexes
    <3>4. x \in Range(UniqueColumnIndexes(p))
      BY <3>2, <3>3
    <3>5. x.op = "index" /\ x.table = p.table /\ x.columns = p.scope \o <<d.name>> /\ x.where = FALSE
      BY DEF CreateIndex
    <3>6. (p.scope \o <<d.name>>)[1] = d.name
      <4>1. d.name \in Words
        <5>1. d \in ColumnPlan
          BY <2>3, SeqIsSeq
        <5> QED
          BY <5>1 DEF ColumnPlan
      <4>2. <<>> \o <<d.name>> = <<d.name>>
        BY <4>1, ConcatEmptySeq
      <4> QED
        BY <3>2, <4>2
    <3> HIDE DEF x
    <3>7. x \in IndexesOf(db)
      BY <2>3, <2>4, <3>4, <3>5, RenderedStatements
    <3> QED
      BY <3>1, <3>5, <3>6, <3>7 DEF p
  <2> QED
    BY <2>9, <2>10, <2>11, <2>12 DEF ColumnAlreadyCovered
<1> QED
  BY <1>1, GenInvariant, PTL

---------------------------------------------------------------------------
(* The names in a DDL file *)

\* The names in a sequence of named things, and that no two are the same.
NamesIn(s) == { x.name : x \in Range(s) }
DistinctlyNamed(s) == \A k, l \in DOMAIN s : s[k].name = s[l].name => k = l

\* Two sequences put together.
LEMMA ConcatNamed ==
    ASSUME NEW s, NEW t, IsSeq(s), IsSeq(t)
    PROVE  /\ NamesIn(s \o t) = NamesIn(s) \cup NamesIn(t)
           /\ DistinctlyNamed(s \o t) <=>
                 /\ DistinctlyNamed(s) /\ DistinctlyNamed(t)
                 /\ NamesIn(s) \cap NamesIn(t) = {}
<1> DEFINE u == s \o t
           m == Len(s)
           n == Len(t)
<1>1. m \in Nat /\ n \in Nat /\ DOMAIN s = 1..m /\ DOMAIN t = 1..n
  BY ConcatElements
<1>2. /\ DOMAIN u = 1..(m + n)
      /\ \A k \in 1..m : u[k] = s[k]
      /\ \A k \in 1..n : u[m + k] = t[k]
  BY ConcatElements
<1>3. Range(u) = Range(s) \cup Range(t)
  BY ConcatIsSeq
<1> HIDE DEF u, m, n
<1>4. NamesIn(u) = NamesIn(s) \cup NamesIn(t)
  BY <1>3 DEF NamesIn
<1>5. ASSUME DistinctlyNamed(u)
      PROVE  DistinctlyNamed(s) /\ DistinctlyNamed(t) /\ NamesIn(s) \cap NamesIn(t) = {}
  <2>1. DistinctlyNamed(s)
    BY <1>1, <1>2, <1>5 DEF DistinctlyNamed
  <2>2. DistinctlyNamed(t)
    <3> SUFFICES ASSUME NEW k \in 1..n, NEW l \in 1..n, t[k].name = t[l].name
                 PROVE  k = l
      BY <1>1 DEF DistinctlyNamed
    <3>1. m + k \in DOMAIN u /\ m + l \in DOMAIN u /\ u[m + k].name = u[m + l].name
      BY <1>1, <1>2
    <3>2. m + k = m + l
      BY <1>5, <3>1 DEF DistinctlyNamed
    <3> QED
      BY <1>1, <3>2
  <2>3. ASSUME NEW k \in 1..m, NEW l \in 1..n, s[k].name = t[l].name
        PROVE  FALSE
    <3>1. k \in DOMAIN u /\ m + l \in DOMAIN u /\ u[k].name = u[m + l].name
      BY <1>1, <1>2, <2>3
    <3>2. k = m + l
      BY <1>5, <3>1 DEF DistinctlyNamed
    <3> QED
      BY <1>1, <3>2
  <2> QED
    BY <1>1, <2>1, <2>2, <2>3 DEF NamesIn, Range
<1>6. ASSUME DistinctlyNamed(s), DistinctlyNamed(t), NamesIn(s) \cap NamesIn(t) = {}
      PROVE  DistinctlyNamed(u)
  <2> SUFFICES ASSUME NEW k \in 1..(m + n), NEW l \in 1..(m + n), u[k].name = u[l].name
               PROVE  k = l
    BY <1>2 DEF DistinctlyNamed
  <2>1. ASSUME NEW a \in 1..m, NEW b \in 1..n PROVE s[a].name # t[b].name
    BY <1>1, <1>6 DEF NamesIn, Range
  <2>2. \A x \in 1..(m + n) : \/ x \in 1..m /\ u[x] = s[x]
                              \/ x - m \in 1..n /\ u[x] = t[x - m]
    <3> TAKE x \in 1..(m + n)
    <3>1. CASE x <= m
      BY <1>1, <1>2, <3>1
    <3>2. CASE ~(x <= m)
      <4>1. x - m \in 1..n /\ m + (x - m) = x
        BY <1>1, <3>2
      <4> QED
        BY <1>2, <4>1
    <3> QED
      BY <3>1, <3>2
  <2>3. CASE k \in 1..m /\ u[k] = s[k] /\ l \in 1..m /\ u[l] = s[l]
    BY <1>1, <1>6, <2>3 DEF DistinctlyNamed
  <2>4. CASE k - m \in 1..n /\ u[k] = t[k - m] /\ l - m \in 1..n /\ u[l] = t[l - m]
    <3>1. k - m = l - m
      BY <1>1, <1>6, <2>4 DEF DistinctlyNamed
    <3> QED
      BY <1>1, <3>1
  <2> QED
    BY <2>1, <2>2, <2>3, <2>4
<1> QED
  BY <1>4, <1>5, <1>6 DEF u

\* A sequence of sequences, flattened.
LEMMA FlattenNamed ==
    ASSUME NEW s, IsSeq(s), \A k \in DOMAIN s : IsSeq(s[k]) /\ DistinctlyNamed(s[k]),
           \A k, l \in DOMAIN s : k # l => NamesIn(s[k]) \cap NamesIn(s[l]) = {}
    PROVE  DistinctlyNamed(FlattenSeq(s))
<1>1. Len(s) \in Nat /\ DOMAIN s = 1..Len(s)
  BY SeqIsSeq DEF IsSeq
<1>2. CASE Len(s) = 0
  <2>1. FlattenSeq(s) = s /\ DOMAIN s = {}
    BY <1>1, <1>2 DEF FlattenSeq
  <2> QED
    BY <2>1 DEF DistinctlyNamed
<1>3. CASE Len(s) # 0
  <2> DEFINE n == Len(s)
             g == CHOOSE g : g = [k \in 1..n |-> IF k = 1 THEN s[k] ELSE g[k - 1] \o s[k]]
  <2>1. FlattenSeq(s) = g[n]
    BY <1>3 DEF FlattenSeq
  <2>2. n \in Nat /\ n # 0 /\ DOMAIN s = 1..n
    BY <1>1, <1>3
  <2> HIDE DEF n
  <2>3. Flattened(g, s, n)
    BY <2>2, FlattenedExists DEF Flattened
  <2> HIDE DEF g
  <2>4. \A k \in 1..n : g[k] = IF k = 1 THEN s[k] ELSE g[k - 1] \o s[k]
    BY <2>3 DEF Flattened
  <2> DEFINE Holds(k) == /\ IsSeq(g[k]) /\ DistinctlyNamed(g[k])
                         /\ NamesIn(g[k]) = UNION { NamesIn(s[l]) : l \in 1..k }
             T == { k \in 1..n : ~Holds(k) }
  <2>5. T = {}
    <3> SUFFICES ASSUME T # {} PROVE FALSE
      OBVIOUS
    <3>1. PICK k \in T : \A y \in T : k <= y
      <4>1. T \subseteq Nat
        BY <2>2
      <4> HIDE DEF T
      <4> QED
        BY <4>1, NatLeast
    <3>2. CASE k = 1
      BY <2>2, <2>4, <3>1, <3>2
    <3>3. CASE k # 1
      <4>1. k - 1 \in 1..n /\ k \in 1..n /\ Holds(k - 1)
        BY <2>2, <3>1, <3>3
      <4>2. g[k] = g[k - 1] \o s[k] /\ IsSeq(s[k]) /\ DistinctlyNamed(s[k])
        BY <2>2, <2>4, <3>3, <4>1
      <4>3. NamesIn(g[k - 1]) \cap NamesIn(s[k]) = {}
        <5>1. \A l \in 1..(k - 1) : l \in 1..n /\ l # k
          BY <2>2, <4>1
        <5>2. \A l \in 1..(k - 1) : NamesIn(s[l]) \cap NamesIn(s[k]) = {}
          BY <2>2, <4>1, <5>1
        <5> QED
          BY <4>1, <5>2
      <4>4. /\ IsSeq(g[k]) /\ DistinctlyNamed(g[k])
            /\ NamesIn(g[k]) = NamesIn(g[k - 1]) \cup NamesIn(s[k])
        BY <4>1, <4>2, <4>3, ConcatIsSeq, ConcatNamed
      <4>5. 1..k = 1..(k - 1) \cup {k}
        BY <4>1
      <4>6. NamesIn(g[k]) = UNION { NamesIn(s[l]) : l \in 1..k }
        BY <4>1, <4>4, <4>5
      <4> QED
        BY <3>1, <4>4, <4>6
    <3> QED
      BY <3>2, <3>3
  <2>6. Holds(n)
    BY <2>2, <2>5
  <2> QED
    BY <2>1, <2>6
<1> QED
  BY <1>2, <1>3

\* The columns of a plan that have names made of theirs.
LEMMA WordsAreSeqs ==
    ASSUME NEW p \in ResourcePlan
    PROVE  /\ IsSeq(p.table) /\ IsSeq(p.scope) /\ \A k \in DOMAIN p.scope : IsSeq(p.scope[k])
           /\ \A c \in Range(p.columns) : IsSeq(c.name)
           /\ \A fk \in Range(p.foreignKeys) : IsSeq(fk.column)
           /\ \A x : IsSeq(<<x>>)
<1>1. /\ p.table \in Seq(STRING) /\ p.scope \in Seq(Words)
      /\ p.columns \in Seq(ColumnPlan) /\ p.foreignKeys \in Seq(ForeignKeyPlan)
  BY DEF ResourcePlan, Words
<1>2. /\ Range(p.scope) \subseteq Words /\ Range(p.columns) \subseteq ColumnPlan
      /\ Range(p.foreignKeys) \subseteq ForeignKeyPlan
      /\ IsSeq(p.table) /\ IsSeq(p.scope)
  BY <1>1, SeqIsSeq
<1>3. \A c \in ColumnPlan : c.name \in Words
  BY DEF ColumnPlan
<1>4. \A fk \in ForeignKeyPlan : fk.column \in Words
  BY DEF ForeignKeyPlan
<1>5. \A w \in Words : IsSeq(w)
  BY SeqIsSeq DEF Words
<1>6. \A x : IsSeq(<<x>>)
  BY DEF IsSeq, Range
<1>7. \A k \in DOMAIN p.scope : p.scope[k] \in Range(p.scope)
  BY DEF Range
<1> QED
  BY <1>2, <1>3, <1>4, <1>5, <1>6, <1>7

\* The name of the index of a reference names its column.
LEMMA KeyIndexNamesDiffer ==
    ASSUME NEW p \in ResourcePlan, NEW c, NEW d, IsSeq(c), IsSeq(d),
           FKIndexName(p, c) = FKIndexName(p, d)
    PROVE  c = d
<1> DEFINE pre == <<"idx">> \o p.table
           post == <<"fk">>
<1>1. IsSeq(<<"idx">>) /\ IsSeq(post) /\ IsSeq(p.table)
  BY WordsAreSeqs
<1>2. IsSeq(pre)
  BY <1>1, ConcatIsSeq
<1>3. FKIndexName(p, c) = pre \o c \o post /\ FKIndexName(p, d) = pre \o d \o post
  BY DEF FKIndexName
<1> HIDE DEF pre, post
<1>4. IsSeq(pre \o c) /\ IsSeq(pre \o d)
  BY <1>2, ConcatIsSeq
<1>5. pre \o c = pre \o d
  BY <1>1, <1>3, <1>4, SuffixCancels
<1> QED
  BY <1>2, <1>5, PrefixCancels

\* So does that of a unique a reference has added, and it is no name of an index of a
\* reference.
LEMMA SupplementalNamesDiffer ==
    ASSUME NEW p \in ResourcePlan, NEW c, NEW d, IsSeq(c), IsSeq(d), Scoped(p)
    PROVE  /\ SupplementalName(p, c) = SupplementalName(p, d) => c = d
           /\ SupplementalName(p, c) # FKIndexName(p, d)
<1> DEFINE uq == <<"uq">>
           idx == <<"idx">>
           fk == <<"fk">>
<1>1. /\ IsSeq(uq) /\ IsSeq(idx) /\ IsSeq(fk) /\ IsSeq(p.table)
      /\ Len(uq) = 1 /\ Len(idx) = 1 /\ uq[1] = "uq" /\ idx[1] = "idx"
  BY WordsAreSeqs
<1>2. IsSeq(p.scope[1])
  <2>1. p.scope \in Seq(Words) /\ p.scope # <<>>
    BY DEF Scoped, ResourcePlan
  <2>2. 1 \in DOMAIN p.scope
    BY <2>1, LenProperties, EmptySeq
  <2> QED
    BY <2>2, WordsAreSeqs
<1> DEFINE own == p.scope[1]
<1>3. /\ SupplementalName(p, c) = uq \o p.table \o own \o c
      /\ SupplementalName(p, d) = uq \o p.table \o own \o d
      /\ FKIndexName(p, d) = idx \o p.table \o d \o fk
  BY DEF SupplementalName, FKIndexName
<1> HIDE DEF uq, idx, fk, own
<1>4. /\ IsSeq(uq \o p.table) /\ IsSeq(idx \o p.table)
      /\ IsSeq(uq \o p.table \o own) /\ IsSeq(idx \o p.table \o d)
  BY <1>1, <1>2, ConcatIsSeq DEF own
<1>5. /\ (uq \o p.table)[1] = "uq" /\ Len(uq \o p.table) >= 1
      /\ (idx \o p.table)[1] = "idx" /\ Len(idx \o p.table) >= 1
  BY <1>1, ConcatElements
<1>6. /\ (uq \o p.table \o own)[1] = "uq" /\ Len(uq \o p.table \o own) >= 1
      /\ (idx \o p.table \o d)[1] = "idx" /\ Len(idx \o p.table \o d) >= 1
  <2>1. IsSeq(own)
    BY <1>2 DEF own
  <2>2. \A x, y : IsSeq(x) /\ IsSeq(y) /\ Len(x) >= 1 =>
                    (x \o y)[1] = x[1] /\ Len(x \o y) >= 1
    <3> SUFFICES ASSUME NEW x, NEW y, IsSeq(x), IsSeq(y), Len(x) >= 1
                 PROVE  (x \o y)[1] = x[1] /\ Len(x \o y) >= 1
      OBVIOUS
    <3>1. /\ Len(x) \in Nat /\ Len(y) \in Nat /\ Len(x \o y) = Len(x) + Len(y)
          /\ \A k \in 1..Len(x) : (x \o y)[k] = x[k]
      BY ConcatElements
    <3> QED
      BY <3>1
  <2> QED
    BY <1>4, <1>5, <2>1, <2>2
<1>7. (uq \o p.table \o own \o c)[1] = "uq" /\ (idx \o p.table \o d \o fk)[1] = "idx"
  BY <1>1, <1>4, <1>6, ConcatElements
<1>8. "uq" # "idx"
  OBVIOUS
<1> QED
  BY <1>3, <1>4, <1>7, <1>8, PrefixCancels

\* What is made of each element of a sequence and has its name.
LEMMA MappedNames ==
    ASSUME NEW s, IsSeq(s), NEW f, f = [k \in DOMAIN s |-> f[k]],
           \A k \in DOMAIN s : f[k].name = s[k].name
    PROVE  /\ IsSeq(f) /\ NamesIn(f) = NamesIn(s)
           /\ DistinctlyNamed(f) <=> DistinctlyNamed(s)
<1>1. Len(s) \in Nat /\ DOMAIN s = 1..Len(s)
  BY SeqIsSeq DEF IsSeq
<1>2. IsSeq(f) /\ DOMAIN f = DOMAIN s
  BY <1>1, FunctionIsASeq
<1>3. NamesIn(f) = NamesIn(s)
  BY <1>2 DEF NamesIn, Range
<1> QED
  BY <1>2, <1>3 DEF DistinctlyNamed

\* The names of the indexes of a file.
LEMMA RenderedNames ==
    ASSUME NEW p \in ResourcePlan
    PROVE  /\ NamesIn(Supplementals(p)) = NamesIn(p.supplementals)
           /\ DistinctlyNamed(Supplementals(p)) <=> DistinctlyNamed(p.supplementals)
           /\ NamesIn(Indexes(p)) = NamesIn(p.indexes)
           /\ DistinctlyNamed(Indexes(p)) <=> DistinctlyNamed(p.indexes)
           /\ NamesIn(UniqueColumnIndexes(p)) = NamesIn(UniqueIndexes(p))
           /\ DistinctlyNamed(UniqueColumnIndexes(p)) <=> DistinctlyNamed(UniqueIndexes(p))
           /\ NamesIn(JSONBIndexes(p)) = NamesIn(PathIndexes(p) \o GinIndexes(p))
           /\ DistinctlyNamed(JSONBIndexes(p)) <=> DistinctlyNamed(PathIndexes(p) \o GinIndexes(p))
<1>1. IsSeq(p.supplementals) /\ IsSeq(p.indexes)
  <2>1. /\ p.supplementals \in Seq(SupplementalUniqueConstraint) /\ p.indexes \in Seq(IndexPlan)
    BY DEF ResourcePlan
  <2> QED
    BY <2>1, SeqIsSeq
<1>2. IsSeq(UniqueIndexes(p)) /\ IsSeq(PathIndexes(p) \o GinIndexes(p))
  BY ImpliedIndexes, ConcatIsSeq
<1>4. /\ NamesIn(Supplementals(p)) = NamesIn(p.supplementals)
      /\ DistinctlyNamed(Supplementals(p)) <=> DistinctlyNamed(p.supplementals)
  <2> DEFINE f == Supplementals(p)
             s == p.supplementals
             entry(x) == CreateIndex(p, x.name, x.columns, TRUE, FALSE)
  <2>1. f = [k \in DOMAIN s |-> entry(s[k])]
    BY DEF Supplementals
  <2>2. \A x : entry(x).name = x.name
    BY DEF CreateIndex
  <2> HIDE DEF f, s, entry
  <2>3. f = [k \in DOMAIN s |-> f[k]]
    BY <2>1
  <2>4. \A k \in DOMAIN s : f[k].name = s[k].name
    BY <2>1, <2>2
  <2> QED
    BY <1>1, <2>3, <2>4, MappedNames DEF f, s
<1>5. /\ NamesIn(Indexes(p)) = NamesIn(p.indexes)
      /\ DistinctlyNamed(Indexes(p)) <=> DistinctlyNamed(p.indexes)
  <2> DEFINE f == Indexes(p)
             s == p.indexes
             entry(x) == CreateIndex(p, x.name, x.columns, x.unique, x.where)
  <2>1. f = [k \in DOMAIN s |-> entry(s[k])]
    BY DEF Indexes
  <2>2. \A x : entry(x).name = x.name
    BY DEF CreateIndex
  <2> HIDE DEF f, s, entry
  <2>3. f = [k \in DOMAIN s |-> f[k]]
    BY <2>1
  <2>4. \A k \in DOMAIN s : f[k].name = s[k].name
    BY <2>1, <2>2
  <2> QED
    BY <1>1, <2>3, <2>4, MappedNames DEF f, s
<1>6. /\ NamesIn(UniqueColumnIndexes(p)) = NamesIn(UniqueIndexes(p))
      /\ DistinctlyNamed(UniqueColumnIndexes(p)) <=> DistinctlyNamed(UniqueIndexes(p))
  <2> DEFINE f == UniqueColumnIndexes(p)
             s == UniqueIndexes(p)
             entry(x) == CreateIndex(p, x.name, p.scope \o <<x.column>>, TRUE, FALSE)
  <2>1. f = [k \in DOMAIN s |-> entry(s[k])]
    BY DEF UniqueColumnIndexes
  <2>2. \A x : entry(x).name = x.name
    BY DEF CreateIndex
  <2> HIDE DEF f, s, entry
  <2>3. f = [k \in DOMAIN s |-> f[k]]
    BY <2>1
  <2>4. \A k \in DOMAIN s : f[k].name = s[k].name
    BY <2>1, <2>2
  <2> QED
    BY <1>2, <2>3, <2>4, MappedNames DEF f, s
<1>7. /\ NamesIn(JSONBIndexes(p)) = NamesIn(PathIndexes(p) \o GinIndexes(p))
      /\ DistinctlyNamed(JSONBIndexes(p)) <=> DistinctlyNamed(PathIndexes(p) \o GinIndexes(p))
  <2> DEFINE f == JSONBIndexes(p)
             s == PathIndexes(p) \o GinIndexes(p)
             entry(x) == CreateIndex(p, x.name, <<x.column>>, FALSE, FALSE)
  <2>1. f = [k \in DOMAIN s |-> entry(s[k])]
    BY DEF JSONBIndexes
  <2>2. \A x : entry(x).name = x.name
    BY DEF CreateIndex
  <2> HIDE DEF f, s, entry
  <2>3. f = [k \in DOMAIN s |-> f[k]]
    BY <2>1
  <2>4. \A k \in DOMAIN s : f[k].name = s[k].name
    BY <2>1, <2>2
  <2> QED
    BY <1>2, <2>3, <2>4, MappedNames DEF f, s
<1> QED
  BY <1>4, <1>5, <1>6, <1>7

\* The names of the indexes of references, one for each column.
LEMMA KeyIndexes ==
    ASSUME NEW p \in ResourcePlan,
           \A k, l \in DOMAIN p.foreignKeys :
              p.foreignKeys[k].column = p.foreignKeys[l].column => k = l
    PROVE  /\ NamesIn(ForeignKeyIndexes(p)) =
                 { FKIndexName(p, fk.column) : fk \in { r \in Range(p.foreignKeys) : r.backing } }
           /\ DistinctlyNamed(ForeignKeyIndexes(p))
<1> DEFINE keys == p.foreignKeys
           entry(fk) == CreateIndex(p, FKIndexName(p, fk.column), <<fk.column>>, FALSE, FALSE)
           s == [k \in DOMAIN p.foreignKeys |->
                   LET fk == p.foreignKeys[k]
                   IN IF fk.backing
                      THEN << CreateIndex(p, FKIndexName(p, fk.column), <<fk.column>>,
                                          FALSE, FALSE) >>
                      ELSE <<>>]
<1>1. /\ Len(keys) \in Nat /\ DOMAIN keys = 1..Len(keys)
  <2>1. keys \in Seq(ForeignKeyPlan)
    BY DEF ResourcePlan
  <2> QED
    BY <2>1, LenProperties
<1>2. /\ DOMAIN s = DOMAIN keys /\ s = [k \in 1..Len(keys) |-> s[k]]
      /\ \A k \in DOMAIN keys : s[k] = IF keys[k].backing THEN <<entry(keys[k])>> ELSE <<>>
  BY <1>1
<1>3. ForeignKeyIndexes(p) = FlattenSeq(s)
  BY DEF ForeignKeyIndexes
<1>4. \A fk : entry(fk).name = FKIndexName(p, fk.column)
  BY DEF CreateIndex
<1>5. \A k \in DOMAIN keys : IsSeq(keys[k].column)
  BY WordsAreSeqs DEF Range
<1> HIDE DEF s, entry
<1>6. ASSUME NEW k \in DOMAIN keys
      PROVE  /\ IsSeq(s[k]) /\ DistinctlyNamed(s[k])
             /\ NamesIn(s[k]) \subseteq {FKIndexName(p, keys[k].column)}
  <2>1. \A x : IsSeq(<<x>>) /\ DistinctlyNamed(<<x>>) /\ NamesIn(<<x>>) = {x.name}
    BY DEF IsSeq, Range, DistinctlyNamed, NamesIn
  <2>2. IsSeq(<<>>) /\ DistinctlyNamed(<<>>) /\ NamesIn(<<>>) = {}
    BY DEF IsSeq, Range, DistinctlyNamed, NamesIn
  <2>3. CASE keys[k].backing
    <3>1. s[k] = <<entry(keys[k])>>
      BY <1>2, <2>3
    <3> QED
      BY <1>4, <2>1, <3>1
  <2>4. CASE ~keys[k].backing
    <3>1. s[k] = <<>>
      BY <1>2, <2>4
    <3> QED
      BY <2>2, <3>1
  <2> QED
    BY <2>3, <2>4
<1>7. \A k, l \in DOMAIN keys : k # l => NamesIn(s[k]) \cap NamesIn(s[l]) = {}
  <2>1. \A k, l \in DOMAIN keys : k # l => FKIndexName(p, keys[k].column) # FKIndexName(p, keys[l].column)
    BY <1>5, KeyIndexNamesDiffer
  <2> HIDE DEF keys
  <2> QED
    BY <1>6, <2>1
<1>8. IsSeq(s)
  BY <1>1, <1>2, FunctionIsASeq
<1>9. DistinctlyNamed(ForeignKeyIndexes(p))
  <2>1. \A k \in DOMAIN s : IsSeq(s[k]) /\ DistinctlyNamed(s[k])
    BY <1>2, <1>6
  <2>2. \A k, l \in DOMAIN s : k # l => NamesIn(s[k]) \cap NamesIn(s[l]) = {}
    BY <1>2, <1>7
  <2> QED
    BY <1>3, <1>8, <2>1, <2>2, FlattenNamed
<1>10. Range(ForeignKeyIndexes(p)) = { entry(fk) : fk \in { r \in Range(p.foreignKeys) : r.backing } }
  BY RenderedIndexes DEF entry
<1>11. NamesIn(ForeignKeyIndexes(p)) =
          { FKIndexName(p, fk.column) : fk \in { r \in Range(p.foreignKeys) : r.backing } }
  BY <1>4, <1>10 DEF NamesIn
<1> QED
  BY <1>9, <1>11

\* What validatePlan compares: no two names of the indexes a message declares and those
\* its columns' options make are the same.
LEMMA ComparedNamesDiffer ==
    ASSUME NEW p \in ResourcePlan, ValidNames(p)
    PROVE  LET json == PathIndexes(p) \o GinIndexes(p)
           IN /\ DistinctlyNamed(p.indexes) /\ DistinctlyNamed(json) /\ DistinctlyNamed(UniqueIndexes(p))
              /\ NamesIn(p.indexes) \cap NamesIn(json) = {}
              /\ NamesIn(p.indexes) \cap NamesIn(UniqueIndexes(p)) = {}
              /\ NamesIn(json) \cap NamesIn(UniqueIndexes(p)) = {}
              /\ ComparedNames(p) = NamesIn(p.indexes) \cup NamesIn(json) \cup NamesIn(UniqueIndexes(p))
<1> DEFINE json == PathIndexes(p) \o GinIndexes(p)
           implied == json \o UniqueIndexes(p)
           a == [k \in DOMAIN p.indexes |-> p.indexes[k].name]
           b == [k \in DOMAIN implied |-> implied[k].name]
           u == UniqueIndexes(p)
           s == p.indexes
<1>1. IsSeq(s) /\ Len(s) \in Nat /\ DOMAIN s = 1..Len(s)
  <2>1. s \in Seq(IndexPlan)
    BY DEF ResourcePlan
  <2> QED
    BY <2>1, SeqIsSeq
<1>2. IsSeq(json) /\ IsSeq(u) /\ IsSeq(implied)
  BY ImpliedIndexes, ConcatIsSeq
<1>3. IsInjective(a \o b)
  BY DEF ValidNames
<1> HIDE DEF json, u, s
<1>4. Len(implied) \in Nat /\ DOMAIN implied = 1..Len(implied)
  BY <1>2, SeqIsSeq DEF IsSeq
<1>5. /\ IsSeq(a) /\ Len(a) = Len(s) /\ IsSeq(b) /\ Len(b) = Len(implied)
      /\ \A k \in 1..Len(s) : a[k] = s[k].name
      /\ \A k \in 1..Len(implied) : b[k] = implied[k].name
  <2>1. /\ a = [k \in 1..Len(s) |-> a[k]] /\ b = [k \in 1..Len(implied) |-> b[k]]
        /\ \A k \in 1..Len(s) : a[k] = s[k].name
        /\ \A k \in 1..Len(implied) : b[k] = implied[k].name
    BY <1>1, <1>4 DEF s
  <2> HIDE DEF a, b, implied
  <2> QED
    BY <1>1, <1>4, <2>1, FunctionIsASeq
<1> HIDE DEF a, b
<1>6. DistinctlyNamed(s \o implied)
  <2> HIDE DEF implied
  <2>1. /\ DOMAIN (s \o implied) = 1..(Len(s) + Len(implied))
        /\ \A k \in 1..Len(s) : (s \o implied)[k] = s[k]
        /\ \A k \in 1..Len(implied) : (s \o implied)[Len(s) + k] = implied[k]
    BY <1>1, <1>2, ConcatElements
  <2>2. /\ DOMAIN (a \o b) = 1..(Len(s) + Len(implied))
        /\ \A k \in 1..Len(s) : (a \o b)[k] = a[k]
        /\ \A k \in 1..Len(implied) : (a \o b)[Len(s) + k] = b[k]
    <3>0. IsSeq(a) /\ IsSeq(b) /\ Len(a) = Len(s) /\ Len(b) = Len(implied)
      BY <1>5
    <3>1. /\ DOMAIN (a \o b) = 1..(Len(a) + Len(b))
          /\ \A k \in 1..Len(a) : (a \o b)[k] = a[k]
          /\ \A k \in 1..Len(b) : (a \o b)[Len(a) + k] = b[k]
      BY <3>0, ConcatElements
    <3> QED
      BY <3>0, <3>1
  <2>3. ASSUME NEW k \in 1..(Len(s) + Len(implied))
        PROVE  (a \o b)[k] = (s \o implied)[k].name
    <3>1. CASE k <= Len(s)
      BY <1>1, <1>5, <2>1, <2>2, <3>1
    <3>2. CASE ~(k <= Len(s))
      <4>1. k - Len(s) \in 1..Len(implied) /\ Len(s) + (k - Len(s)) = k
        BY <1>1, <1>4, <3>2
      <4> QED
        BY <1>5, <2>1, <2>2, <4>1
    <3> QED
      BY <3>1, <3>2
  <2> QED
    BY <1>3, <2>1, <2>2, <2>3 DEF IsInjective, DistinctlyNamed
<1>7. /\ DistinctlyNamed(s) /\ DistinctlyNamed(implied)
      /\ NamesIn(s) \cap NamesIn(implied) = {}
  <2> HIDE DEF implied
  <2> QED
    BY <1>1, <1>2, <1>6, ConcatNamed
<1>8. /\ DistinctlyNamed(json) /\ DistinctlyNamed(u) /\ NamesIn(json) \cap NamesIn(u) = {}
      /\ NamesIn(implied) = NamesIn(json) \cup NamesIn(u)
  BY <1>2, <1>7, ConcatNamed DEF u
<1>9. ComparedNames(p) = NamesIn(s) \cup NamesIn(implied)
  BY DEF ComparedNames, NamesIn, s, json
<1> QED
  BY <1>7, <1>8, <1>9 DEF json, u, s

\* What does not change when a plan's references are completed.
LEMMA SameNames ==
    ASSUME NEW p \in ResourcePlan, NEW m \in ResourcePlan, SameDeclaration(p, m)
    PROVE  /\ PathIndexes(p) = PathIndexes(m) /\ GinIndexes(p) = GinIndexes(m)
           /\ UniqueIndexes(p) = UniqueIndexes(m) /\ ColumnNames(p) = ColumnNames(m)
           /\ \A c : /\ FKIndexName(p, c) = FKIndexName(m, c)
                     /\ SupplementalName(p, c) = SupplementalName(m, c)
<1>1. p.table = m.table /\ p.columns = m.columns /\ p.oneofs = m.oneofs /\ p.scope = m.scope
  BY DEF SameDeclaration
<1>2. JSONColumns(p) = JSONColumns(m)
  BY <1>1 DEF JSONColumns
<1>3. \A c, path : PathIndexName(p, c, path) = PathIndexName(m, c, path)
  BY <1>1 DEF PathIndexName
<1>4. PathIndexes(p) = PathIndexes(m)
  BY <1>2, <1>3 DEF PathIndexes
<1>5. \A c : GinName(p, c) = GinName(m, c) /\ UniqueName(p, c) = UniqueName(m, c)
  BY <1>1 DEF GinName, UniqueName
<1>6. GinIndexes(p) = GinIndexes(m) /\ UniqueIndexes(p) = UniqueIndexes(m)
  BY <1>1, <1>5 DEF GinIndexes, UniqueIndexes
<1>7. ColumnNames(p) = ColumnNames(m)
  BY <1>1 DEF ColumnNames, OneofColumns
<1>8. \A c : /\ FKIndexName(p, c) = FKIndexName(m, c)
             /\ SupplementalName(p, c) = SupplementalName(m, c)
  BY <1>1 DEF FKIndexName, SupplementalName
<1> QED
  BY <1>4, <1>6, <1>7, <1>8

\* What the file of a plan begins with, and the names in it.
LEMMA FileNames ==
    ASSUME NEW p \in ResourcePlan
    PROVE  LET a == <<CreateTable(p)>>
               parts == <<Supplementals(p), Indexes(p), UniqueColumnIndexes(p),
                          JSONBIndexes(p), ForeignKeyIndexes(p)>>
           IN /\ Len(RenderSchemaSQL(p)) \in Nat \ {0} /\ RenderSchemaSQL(p)[1] = CreateTable(p)
              /\ DOMAIN RenderSchemaSQL(p) = 1..Len(RenderSchemaSQL(p))
              /\ (/\ \A k \in 1..5 : DistinctlyNamed(parts[k]) /\ p.table \notin NamesIn(parts[k])
                  /\ \A k, l \in 1..5 : k # l => NamesIn(parts[k]) \cap NamesIn(parts[l]) = {})
                 => DistinctlyNamed(RenderSchemaSQL(p))
<1> DEFINE a == <<CreateTable(p)>>
           b == Supplementals(p)
           c == Indexes(p)
           d == UniqueColumnIndexes(p)
           e == JSONBIndexes(p)
           f == ForeignKeyIndexes(p)
           parts == <<b, c, d, e, f>>
           ab == a \o b
           abc == ab \o c
           abcd == abc \o d
           abcde == abcd \o e
           all == abcde \o f
           t == CreateTable(p)
<1>1. RenderSchemaSQL(p) = all
  BY DEF RenderSchemaSQL
<1>2. IsSeq(a) /\ Len(a) = 1 /\ a[1] = t /\ NamesIn(a) = {p.table} /\ DistinctlyNamed(a)
  <2>1. t.name = p.table
    BY DEF CreateTable
  <2> HIDE DEF t
  <2>2. \A x : /\ IsSeq(<<x>>) /\ Len(<<x>>) = 1 /\ <<x>>[1] = x /\ Range(<<x>>) = {x}
               /\ DistinctlyNamed(<<x>>)
    BY DEF IsSeq, Range, DistinctlyNamed
  <2>3. a = <<t>>
    BY DEF t
  <2> HIDE DEF a
  <2> QED
    BY <2>1, <2>2, <2>3 DEF NamesIn
<1>3. IsSeq(b) /\ IsSeq(c) /\ IsSeq(d) /\ IsSeq(e) /\ IsSeq(f)
  BY RenderedIndexes
<1> HIDE DEF a, b, c, d, e, f, t
<1>4. ASSUME NEW s, NEW u, IsSeq(s), IsSeq(u), Len(s) >= 1, s[1] = t
      PROVE  IsSeq(s \o u) /\ Len(s \o u) >= 1 /\ (s \o u)[1] = t
  <2>1. /\ Len(s) \in Nat /\ Len(u) \in Nat /\ Len(s \o u) = Len(s) + Len(u)
        /\ \A k \in 1..Len(s) : (s \o u)[k] = s[k]
    BY <1>4, ConcatElements
  <2>2. IsSeq(s \o u)
    BY <1>4, ConcatIsSeq
  <2> QED
    BY <1>4, <2>1, <2>2
<1>5. IsSeq(ab) /\ Len(ab) >= 1 /\ ab[1] = t
  BY <1>2, <1>3, <1>4
<1>6. IsSeq(abc) /\ Len(abc) >= 1 /\ abc[1] = t
  <2> HIDE DEF ab
  <2> QED
    BY <1>3, <1>4, <1>5
<1>7. IsSeq(abcd) /\ Len(abcd) >= 1 /\ abcd[1] = t
  <2> HIDE DEF abc
  <2> QED
    BY <1>3, <1>4, <1>6
<1>8. IsSeq(abcde) /\ Len(abcde) >= 1 /\ abcde[1] = t
  <2> HIDE DEF abcd
  <2> QED
    BY <1>3, <1>4, <1>7
<1>9. IsSeq(all) /\ Len(all) >= 1 /\ all[1] = t
  <2> HIDE DEF abcde
  <2> QED
    BY <1>3, <1>4, <1>8
<1>10. Len(all) \in Nat /\ DOMAIN all = 1..Len(all)
  <2> HIDE DEF all
  <2> QED
    BY <1>9, SeqIsSeq DEF IsSeq
<1>11. ASSUME \A k \in 1..5 : DistinctlyNamed(parts[k]) /\ p.table \notin NamesIn(parts[k]),
              \A k, l \in 1..5 : k # l => NamesIn(parts[k]) \cap NamesIn(parts[l]) = {}
       PROVE  DistinctlyNamed(all)
  <2>1. /\ parts[1] = b /\ parts[2] = c /\ parts[3] = d /\ parts[4] = e /\ parts[5] = f
        /\ 1 \in 1..5 /\ 2 \in 1..5 /\ 3 \in 1..5 /\ 4 \in 1..5 /\ 5 \in 1..5
    OBVIOUS
  <2> HIDE DEF parts
  <2>2. /\ DistinctlyNamed(b) /\ DistinctlyNamed(c) /\ DistinctlyNamed(d)
        /\ DistinctlyNamed(e) /\ DistinctlyNamed(f)
        /\ p.table \notin NamesIn(b) /\ p.table \notin NamesIn(c) /\ p.table \notin NamesIn(d)
        /\ p.table \notin NamesIn(e) /\ p.table \notin NamesIn(f)
    BY <1>11, <2>1
  <2>3. /\ NamesIn(b) \cap NamesIn(c) = {} /\ NamesIn(b) \cap NamesIn(d) = {}
        /\ NamesIn(b) \cap NamesIn(e) = {} /\ NamesIn(b) \cap NamesIn(f) = {}
        /\ NamesIn(c) \cap NamesIn(d) = {} /\ NamesIn(c) \cap NamesIn(e) = {}
        /\ NamesIn(c) \cap NamesIn(f) = {} /\ NamesIn(d) \cap NamesIn(e) = {}
        /\ NamesIn(d) \cap NamesIn(f) = {} /\ NamesIn(e) \cap NamesIn(f) = {}
    BY <1>11, <2>1
  <2>4. DistinctlyNamed(ab) /\ NamesIn(ab) = {p.table} \cup NamesIn(b)
    BY <1>2, <1>3, <2>2, ConcatNamed
  <2>5. DistinctlyNamed(abc) /\ NamesIn(abc) = NamesIn(ab) \cup NamesIn(c)
    <3> HIDE DEF ab
    <3> QED
      BY <1>3, <1>5, <2>2, <2>3, <2>4, ConcatNamed
  <2>6. DistinctlyNamed(abcd) /\ NamesIn(abcd) = NamesIn(abc) \cup NamesIn(d)
    <3> HIDE DEF ab, abc
    <3> QED
      BY <1>3, <1>6, <2>2, <2>3, <2>4, <2>5, ConcatNamed
  <2>7. DistinctlyNamed(abcde) /\ NamesIn(abcde) = NamesIn(abcd) \cup NamesIn(e)
    <3> HIDE DEF ab, abc, abcd
    <3> QED
      BY <1>3, <1>7, <2>2, <2>3, <2>4, <2>5, <2>6, ConcatNamed
  <2> HIDE DEF ab, abc, abcd, abcde
  <2> QED
    BY <1>3, <1>8, <2>2, <2>3, <2>4, <2>5, <2>6, <2>7, ConcatNamed
<1> HIDE DEF all
<1>12. Len(all) \in Nat \ {0}
  BY <1>9, <1>10
<1> QED
  BY <1>1, <1>9, <1>10, <1>11, <1>12 DEF parts, b, c, d, e, f, t

\* No column of a message has two references.
LEMMA OneKeyPerColumn ==
    ASSUME NEW ms \in Sources, NEW i \in DOMAIN ms
    PROVE  \A k, l \in DOMAIN ms[i].foreignKeys :
              ms[i].foreignKeys[k].column = ms[i].foreignKeys[l].column
              /\ ValidColumns(ms[i]) => k = l
<1> DEFINE m == ms[i]
<1>1. m \in Range(ms)
  BY DEF Range
<1>2. PICK of \in [DOMAIN m.foreignKeys -> DOMAIN m.columns] :
         /\ IsInjective(of)
         /\ \A k \in DOMAIN of : m.columns[of[k]].name = m.foreignKeys[k].column
  BY <1>1, SourcesAssumption DEF Request
<1> HIDE DEF m
<1> SUFFICES ASSUME NEW k \in DOMAIN m.foreignKeys, NEW l \in DOMAIN m.foreignKeys,
                    m.foreignKeys[k].column = m.foreignKeys[l].column, ValidColumns(m)
             PROVE  k = l
  BY DEF m
<1>3. of[k] = of[l]
  BY <1>2 DEF ValidColumns
<1> QED
  BY <1>2, <1>3 DEF IsInjective

\* What a completed reference keeps of the one declared, and which of them have an index.
LEMMA MadeKeys ==
    ASSUME NEW ms \in Sources, NEW i \in DOMAIN ms, NEW p, MadeOf(p, ms, i)
    PROVE  /\ p.foreignKeys \in Seq(ForeignKeyPlan)
           /\ DOMAIN p.foreignKeys = DOMAIN ms[i].foreignKeys
           /\ \A b \in DOMAIN p.foreignKeys :
                 LET fk == ms[i].foreignKeys[b]
                 IN /\ fk \in ForeignKeyPlan
                    /\ \E q \in Range(ms) : \E c \in TargetColumns(q, fk) :
                          q.fqn = fk.message /\ Scoped(ms[i]) = Scoped(q)
                          /\ Says(p.foreignKeys[b], ms[i], fk, q, c)
<1> DEFINE m == ms[i]
<1>1. p \in ResourcePlan /\ Len(p.foreignKeys) = Len(m.foreignKeys)
  BY DEF MadeOf, SameDeclaration
<1>2. p.foreignKeys \in Seq(ForeignKeyPlan) /\ m.foreignKeys \in Seq(ForeignKeyPlan)
  <2>1. m.foreignKeys \in Seq(ForeignKeyPlan)
    BY RequestFacts
  <2> QED
    BY <1>1, <2>1 DEF ResourcePlan
<1>3. DOMAIN p.foreignKeys = DOMAIN m.foreignKeys
  BY <1>1, <1>2, LenProperties
<1>4. ASSUME NEW b \in DOMAIN p.foreignKeys
      PROVE  /\ m.foreignKeys[b] \in ForeignKeyPlan
             /\ \E q \in Range(ms) : \E c \in TargetColumns(q, m.foreignKeys[b]) :
                   q.fqn = m.foreignKeys[b].message /\ Scoped(m) = Scoped(q)
                   /\ Says(p.foreignKeys[b], m, m.foreignKeys[b], q, c)
  <2> DEFINE fk == m.foreignKeys[b]
             done == p.foreignKeys[b]
  <2>1. fk \in ForeignKeyPlan
    BY <1>2, <1>3
  <2>2. CompletionOf(ms, m, fk, done)
    BY <1>3 DEF MadeOf
  <2> HIDE DEF fk, done, m
  <2>3. PICK q \in Range(ms) : \E c \in TargetColumns(q, fk) :
           q.fqn = fk.message /\ Scoped(m) = Scoped(q) /\ done = Completed(m, fk, q, c)
    BY <2>2 DEF CompletionOf
  <2>4. PICK c \in TargetColumns(q, fk) :
           q.fqn = fk.message /\ Scoped(m) = Scoped(q) /\ done = Completed(m, fk, q, c)
    BY <2>3
  <2>5. Says(done, m, fk, q, c)
    BY <2>1, <2>4, CompletedFields
  <2> QED
    BY <2>1, <2>4, <2>5 DEF fk, done
<1> QED
  BY <1>2, <1>3, <1>4

\* The names of the indexes that references add.
LEMMA AddedNames ==
    ASSUME NEW ms \in Sources, NEW i \in DOMAIN ms, NEW p, MadeOf(p, ms, i)
    PROVE  /\ NamesIn(ForeignKeyIndexes(p)) = KeyIndexNames(ms[i])
           /\ DistinctlyNamed(ForeignKeyIndexes(p))
           /\ NamesIn(Supplementals(p)) = SupplementalNames(ms, ms[i])
           /\ DistinctlyNamed(Supplementals(p))
<1> DEFINE m == ms[i]
<1>1. /\ p \in ResourcePlan /\ m \in ResourcePlan /\ SameDeclaration(p, m) /\ ValidColumns(m)
      /\ HasSupplementals(p.supplementals, m, Wanted(ms, AllKeys, i))
  <2>1. m \in ResourcePlan
    BY RequestFacts
  <2> QED
    BY <2>1 DEF MadeOf, ValidPlan
<1>2. \A c : /\ FKIndexName(p, c) = FKIndexName(m, c)
             /\ SupplementalName(p, c) = SupplementalName(m, c)
  BY <1>1, SameNames
<1>3. /\ DOMAIN p.foreignKeys = DOMAIN m.foreignKeys
      /\ \A b \in DOMAIN p.foreignKeys :
            /\ p.foreignKeys[b].column = m.foreignKeys[b].column
            /\ p.foreignKeys[b].backing <=>
                  m.foreignKeys[b].backing /\ ~ColumnAlreadyCovered(m, m.foreignKeys[b].column)
  <2>1. DOMAIN p.foreignKeys = DOMAIN m.foreignKeys
    BY MadeKeys
  <2>2. ASSUME NEW b \in DOMAIN p.foreignKeys
        PROVE  /\ p.foreignKeys[b].column = m.foreignKeys[b].column
               /\ p.foreignKeys[b].backing <=>
                     m.foreignKeys[b].backing /\ ~ColumnAlreadyCovered(m, m.foreignKeys[b].column)
    <3> DEFINE fk == m.foreignKeys[b]
               done == p.foreignKeys[b]
    <3>1. \E q, c : Says(done, m, fk, q, c)
      BY MadeKeys
    <3> HIDE DEF m, fk, done
    <3>2. done.column = fk.column /\ (done.backing <=> fk.backing /\ ~ColumnAlreadyCovered(m, fk.column))
      BY <3>1 DEF Says
    <3> QED
      BY <3>2 DEF fk, done
  <2> QED
    BY <2>1, <2>2
<1>4. \A k, l \in DOMAIN m.foreignKeys :
         m.foreignKeys[k].column = m.foreignKeys[l].column => k = l
  BY <1>1, OneKeyPerColumn
<1>5. /\ NamesIn(ForeignKeyIndexes(p)) =
            { FKIndexName(p, fk.column) : fk \in { r \in Range(p.foreignKeys) : r.backing } }
      /\ DistinctlyNamed(ForeignKeyIndexes(p))
  <2>1. \A k, l \in DOMAIN p.foreignKeys :
           p.foreignKeys[k].column = p.foreignKeys[l].column => k = l
    BY <1>3, <1>4
  <2> QED
    BY <1>1, <2>1, KeyIndexes
<1>6. { FKIndexName(p, fk.column) : fk \in { r \in Range(p.foreignKeys) : r.backing } } =
         KeyIndexNames(m)
  <2> HIDE DEF m
  <2>1. { fk.column : fk \in { r \in Range(p.foreignKeys) : r.backing } } =
           { fk.column : fk \in { r \in Range(m.foreignKeys) :
                                    r.backing /\ ~ColumnAlreadyCovered(m, r.column) } }
    BY <1>3 DEF Range
  <2>2. \A S : { FKIndexName(p, fk.column) : fk \in S } = { FKIndexName(m, c) : c \in { fk.column : fk \in S } }
    BY <1>2
  <2>3. \A S : { FKIndexName(m, fk.column) : fk \in S } = { FKIndexName(m, c) : c \in { fk.column : fk \in S } }
    OBVIOUS
  <2> QED
    BY <2>1, <2>2, <2>3 DEF KeyIndexNames
<1> DEFINE C == { d \in Range(m.columns) : NeedsSupplemental(ms, m, d) }
<1>7. Wanted(ms, AllKeys, i) = C
  BY NeededUniques
<1>8. /\ SupplementalNames(ms, m) = { SupplementalName(m, c.name) : c \in C }
      /\ \A c \in C : c \in Range(m.columns) /\ Scoped(m)
  BY DEF SupplementalNames, NeedsSupplemental
<1>9. /\ Range(p.supplementals) = { Supplemental(m, c) : c \in C }
      /\ \A k, l \in DOMAIN p.supplementals : p.supplementals[k] = p.supplementals[l] => k = l
  BY <1>1, <1>7 DEF HasSupplementals
<1>10. \A c : Supplemental(m, c).name = SupplementalName(m, c.name)
  BY DEF Supplemental
<1>11. \A c \in Range(m.columns) : IsSeq(c.name)
  BY <1>1, WordsAreSeqs
<1> HIDE DEF m, C
<1>12. NamesIn(p.supplementals) = SupplementalNames(ms, m)
  BY <1>8, <1>9, <1>10 DEF NamesIn
<1>13. DistinctlyNamed(p.supplementals)
  <2> SUFFICES ASSUME NEW k \in DOMAIN p.supplementals, NEW l \in DOMAIN p.supplementals,
                      p.supplementals[k].name = p.supplementals[l].name
               PROVE  k = l
    BY DEF DistinctlyNamed
  <2>1. PICK c \in C : p.supplementals[k] = Supplemental(m, c)
    BY <1>9 DEF Range
  <2>2. PICK d \in C : p.supplementals[l] = Supplemental(m, d)
    BY <1>9 DEF Range
  <2>3. SupplementalName(m, c.name) = SupplementalName(m, d.name)
    BY <1>10, <2>1, <2>2
  <2>4. c.name = d.name
    BY <1>1, <1>8, <1>11, <2>3, SupplementalNamesDiffer
  <2>5. Supplemental(m, c) = Supplemental(m, d)
    BY <2>4 DEF Supplemental
  <2> QED
    BY <1>9, <2>1, <2>2, <2>5
<1>14. /\ NamesIn(Supplementals(p)) = NamesIn(p.supplementals)
       /\ DistinctlyNamed(Supplementals(p)) <=> DistinctlyNamed(p.supplementals)
  BY <1>1, RenderedNames
<1> QED
  BY <1>5, <1>6, <1>12, <1>13, <1>14 DEF m

\* In the file of a made plan no name comes twice, and its indexes have the names the
\* hypotheses are about.
LEMMA MadeNames ==
    ASSUME DistinctNames, NEW ms \in Sources, NEW i \in DOMAIN ms, NEW p, MadeOf(p, ms, i)
    PROVE  /\ DistinctlyNamed(RenderSchemaSQL(p))
           /\ \A x \in Range(RenderSchemaSQL(p)) \ {CreateTable(p)} : x.name \in IndexNames(ms, ms[i])
<1> DEFINE m == ms[i]
           json == PathIndexes(m) \o GinIndexes(m)
           b == Supplementals(p)
           c == Indexes(p)
           d == UniqueColumnIndexes(p)
           e == JSONBIndexes(p)
           f == ForeignKeyIndexes(p)
           parts == <<b, c, d, e, f>>
<1>1. /\ p \in ResourcePlan /\ m \in ResourcePlan /\ SameDeclaration(p, m) /\ ValidNames(m)
      /\ p.table = m.table /\ p.indexes = m.indexes
  <2>1. m \in ResourcePlan
    BY RequestFacts
  <2> QED
    BY <2>1 DEF MadeOf, ValidPlan, SameDeclaration
<1>2. PathIndexes(p) \o GinIndexes(p) = json /\ UniqueIndexes(p) = UniqueIndexes(m)
  BY <1>1, SameNames
<1>3. /\ NamesIn(b) = SupplementalNames(ms, m) /\ DistinctlyNamed(b)
      /\ NamesIn(f) = KeyIndexNames(m) /\ DistinctlyNamed(f)
  BY AddedNames
<1>4. /\ DistinctlyNamed(m.indexes) /\ DistinctlyNamed(json) /\ DistinctlyNamed(UniqueIndexes(m))
      /\ NamesIn(m.indexes) \cap NamesIn(json) = {}
      /\ NamesIn(m.indexes) \cap NamesIn(UniqueIndexes(m)) = {}
      /\ NamesIn(json) \cap NamesIn(UniqueIndexes(m)) = {}
      /\ ComparedNames(m) = NamesIn(m.indexes) \cup NamesIn(json) \cup NamesIn(UniqueIndexes(m))
  BY <1>1, ComparedNamesDiffer
<1>5. /\ NamesIn(c) = NamesIn(m.indexes) /\ DistinctlyNamed(c)
      /\ NamesIn(d) = NamesIn(UniqueIndexes(m)) /\ DistinctlyNamed(d)
      /\ NamesIn(e) = NamesIn(json) /\ DistinctlyNamed(e)
  BY <1>1, <1>2, <1>4, RenderedNames
<1>6. /\ TableNames(m) \cap IndexNames(ms, m) = {}
      /\ ComparedNames(m) \cap (KeyIndexNames(m) \cup SupplementalNames(ms, m)) = {}
  BY DEF DistinctNames
<1>7. SupplementalNames(ms, m) \cap KeyIndexNames(m) = {}
  <2> SUFFICES ASSUME NEW col \in Range(m.columns), NeedsSupplemental(ms, m, col),
                      NEW fk \in Range(m.foreignKeys)
               PROVE  SupplementalName(m, col.name) # FKIndexName(m, fk.column)
    BY DEF SupplementalNames, KeyIndexNames
  <2>1. IsSeq(col.name) /\ IsSeq(fk.column) /\ Scoped(m)
    BY <1>1, WordsAreSeqs DEF NeedsSupplemental
  <2> HIDE DEF m
  <2> QED
    BY <1>1, <2>1, SupplementalNamesDiffer
<1>8. p.table \in TableNames(m)
  BY <1>1 DEF TableNames
<1> HIDE DEF m, json, b, c, d, e, f
<1>9. DistinctlyNamed(RenderSchemaSQL(p))
  <2>1. /\ parts[1] = b /\ parts[2] = c /\ parts[3] = d /\ parts[4] = e /\ parts[5] = f
        /\ \A k \in 1..5 : k = 1 \/ k = 2 \/ k = 3 \/ k = 4 \/ k = 5
    OBVIOUS
  <2>2. \A k \in 1..5 : DistinctlyNamed(parts[k]) /\ p.table \notin NamesIn(parts[k])
    <3>1. /\ p.table \notin NamesIn(b) /\ p.table \notin NamesIn(c) /\ p.table \notin NamesIn(d)
          /\ p.table \notin NamesIn(e) /\ p.table \notin NamesIn(f)
      BY <1>3, <1>4, <1>5, <1>6, <1>8 DEF IndexNames
    <3> HIDE DEF parts
    <3> QED
      BY <1>3, <1>5, <2>1, <3>1
  <2>3. \A k, l \in 1..5 : k # l => NamesIn(parts[k]) \cap NamesIn(parts[l]) = {}
    <3>1. /\ NamesIn(b) \cap NamesIn(c) = {} /\ NamesIn(b) \cap NamesIn(d) = {}
          /\ NamesIn(b) \cap NamesIn(e) = {} /\ NamesIn(b) \cap NamesIn(f) = {}
          /\ NamesIn(c) \cap NamesIn(d) = {} /\ NamesIn(c) \cap NamesIn(e) = {}
          /\ NamesIn(c) \cap NamesIn(f) = {} /\ NamesIn(d) \cap NamesIn(e) = {}
          /\ NamesIn(d) \cap NamesIn(f) = {} /\ NamesIn(e) \cap NamesIn(f) = {}
      BY <1>3, <1>4, <1>5, <1>6, <1>7
    <3> HIDE DEF parts
    <3> QED
      BY <2>1, <3>1
  <2> QED
    BY <1>1, <2>2, <2>3, FileNames DEF parts, b, c, d, e, f
<1>10. \A x \in Range(RenderSchemaSQL(p)) \ {CreateTable(p)} : x.name \in IndexNames(ms, m)
  <2>1. Range(RenderSchemaSQL(p)) \ {CreateTable(p)} \subseteq
           Range(b) \cup Range(c) \cup Range(d) \cup Range(e) \cup Range(f)
    BY <1>1, RenderedStatements DEF b, c, d, e, f
  <2>2. \A s : \A x \in Range(s) : x.name \in NamesIn(s)
    BY DEF NamesIn
  <2>3. NamesIn(b) \cup NamesIn(c) \cup NamesIn(d) \cup NamesIn(e) \cup NamesIn(f) = IndexNames(ms, m)
    BY <1>3, <1>4, <1>5 DEF IndexNames
  <2> QED
    BY <2>1, <2>2, <2>3
<1> QED
  BY <1>9, <1>10 DEF m

\* What a made plan leaves in a catalog: the names, its table's key and its indexes.
LEMMA MadeRelations ==
    ASSUME DistinctNames, NEW ms \in Sources, NEW i \in DOMAIN ms, NEW p, MadeOf(p, ms, i)
    PROVE  RelationNames(Range(RenderSchemaSQL(p))) \subseteq IndexNames(ms, ms[i]) \cup TableNames(ms[i])
<1> DEFINE S == Range(RenderSchemaSQL(p))
           t == CreateTable(p)
<1>1. p \in ResourcePlan /\ p.table = ms[i].table
  BY DEF MadeOf, SameDeclaration
<1>2. TablesOf(S) = {t} /\ \A x \in S \ {t} : x.op = "index" /\ x.name \in IndexNames(ms, ms[i])
  BY <1>1, OneTablePerFile, MadeNames
<1>3. t.name = p.table /\ t.op = "table"
  BY DEF CreateTable
<1>4. PrimaryKeyIndex(t).name = p.table \o <<"pkey">>
  BY <1>3 DEF PrimaryKeyIndex
<1>5. p.table \in TableNames(ms[i]) /\ p.table \o <<"pkey">> \in TableNames(ms[i])
  BY <1>1 DEF TableNames
<1> HIDE DEF S, t
<1>6. \A x \in IndexesOf(S) : x.name \in IndexNames(ms, ms[i]) \cup TableNames(ms[i])
  <2>1. \A x \in S : x.op = "index" => x # t
    BY <1>3
  <2>2. IndexesOf(S) = { s \in S : s.op = "index" } \cup { PrimaryKeyIndex(t) }
    BY <1>2 DEF IndexesOf
  <2> QED
    BY <1>2, <1>4, <1>5, <2>1, <2>2
<1> QED
  BY <1>2, <1>3, <1>5, <1>6 DEF RelationNames, S

---------------------------------------------------------------------------
(* What PostgreSQL accepts of a DDL file *)

\* Index x is one that PostgreSQL adds to a table.
IndexFits(t, x) ==
    /\ Range(x.columns) \subseteq t.columns
    /\ x.unique => t.partition \subseteq Range(x.columns)

\* The implied indexes of JSON are on columns of the table.
LEMMA JSONBIndexColumns ==
    ASSUME NEW p \in ResourcePlan
    PROVE  \A x \in Range(JSONBIndexes(p)) : Range(x.columns) \subseteq ColumnNames(p)
<1>1. /\ p.columns \in Seq(ColumnPlan) /\ p.oneofs \in Seq(OneofColumnPlan)
  BY DEF ResourcePlan
<1>2. /\ Len(p.columns) \in Nat /\ DOMAIN p.columns = 1..Len(p.columns)
      /\ Len(p.oneofs) \in Nat /\ DOMAIN p.oneofs = 1..Len(p.oneofs)
  BY <1>1, SeqIsSeq
<1>3. \A x : IsSeq(<<x>>) /\ Range(<<x>>) = {x}
  BY DEF IsSeq, Range
<1>4. IsSeq(<<>>) /\ Range(<<>>) = {}
  BY DEF IsSeq, Range
<1>5. /\ \A k \in DOMAIN p.columns : p.columns[k].name \in ColumnNames(p)
      /\ \A k \in DOMAIN p.oneofs : p.oneofs[k].base \in ColumnNames(p)
  BY DEF ColumnNames, OneofColumns, Range
<1>6. \A x \in Range(GinIndexes(p)) : x.column \in ColumnNames(p)
  <2> DEFINE entry(c) == [name |-> GinName(p, c.name), column |-> c.name]
             s == [k \in DOMAIN p.columns |->
                     LET c == p.columns[k]
                     IN IF c.gin THEN << [name |-> GinName(p, c.name), column |-> c.name] >>
                        ELSE <<>>]
  <2>1. \A k \in DOMAIN p.columns : s[k] = IF p.columns[k].gin THEN <<entry(p.columns[k])>> ELSE <<>>
    OBVIOUS
  <2>2. DOMAIN s = DOMAIN p.columns /\ s = [k \in 1..Len(p.columns) |-> s[k]]
    BY <1>2
  <2>3. GinIndexes(p) = FlattenSeq(s)
    BY DEF GinIndexes
  <2>4. \A k \in DOMAIN p.columns : entry(p.columns[k]).column \in ColumnNames(p)
    BY <1>5
  <2> HIDE DEF s, entry
  <2>5. \A k \in DOMAIN p.columns :
           IsSeq(s[k]) /\ Range(s[k]) \subseteq {entry(p.columns[k])}
    BY <1>3, <1>4, <2>1
  <2>6. IsSeq(s)
    BY <1>2, <2>2, FunctionIsASeq
  <2>7. Range(GinIndexes(p)) = UNION { Range(s[k]) : k \in DOMAIN p.columns }
    BY <2>2, <2>3, <2>5, <2>6, FlattenSeqRange
  <2> QED
    BY <2>4, <2>5, <2>7
<1>7. \A x \in Range(PathIndexes(p)) : x.column \in ColumnNames(p)
  <2> DEFINE js == JSONColumns(p)
             f == [k \in DOMAIN p.columns |-> [name |-> p.columns[k].name,
                                               paths |-> p.columns[k].paths]]
             g == [k \in DOMAIN p.oneofs |-> [name |-> p.oneofs[k].base,
                                              paths |-> p.oneofs[k].paths]]
  <2>1. /\ f = [k \in 1..Len(p.columns) |-> f[k]]
        /\ g = [k \in 1..Len(p.oneofs) |-> g[k]]
        /\ js = f \o g
    BY <1>2 DEF JSONColumns
  <2>2. /\ \A k \in 1..Len(p.columns) :
              f[k].paths = p.columns[k].paths /\ f[k].name = p.columns[k].name
        /\ \A k \in 1..Len(p.oneofs) :
              g[k].paths = p.oneofs[k].paths /\ g[k].name = p.oneofs[k].base
    BY <1>2
  <2>3. /\ \A k \in 1..Len(p.columns) : p.columns[k].paths \in Seq(Seq(Words))
        /\ \A k \in 1..Len(p.oneofs) : p.oneofs[k].paths \in Seq(Seq(Words))
    <3>1. \A k \in DOMAIN p.columns : p.columns[k] \in ColumnPlan
      BY <1>1, <1>2
    <3>2. \A k \in DOMAIN p.oneofs : p.oneofs[k] \in OneofColumnPlan
      BY <1>1, <1>2
    <3>3. \A k \in DOMAIN p.columns : p.columns[k].paths \in Seq(Seq(Words))
      BY <3>1 DEF ColumnPlan
    <3>4. \A k \in DOMAIN p.oneofs : p.oneofs[k].paths \in Seq(Seq(Words))
      BY <3>2 DEF OneofColumnPlan
    <3> QED
      BY <1>2, <3>3, <3>4
  <2> HIDE DEF f, g, js
  <2>4. /\ IsSeq(js)
        /\ \A j \in Range(js) : j.paths \in Seq(Seq(Words)) /\ j.name \in ColumnNames(p)
    <3>1. IsSeq(f) /\ DOMAIN f = 1..Len(p.columns)
      BY <1>2, <2>1, FunctionIsASeq
    <3>2. IsSeq(g) /\ DOMAIN g = 1..Len(p.oneofs)
      BY <1>2, <2>1, FunctionIsASeq
    <3>3. IsSeq(js) /\ Range(js) = Range(f) \cup Range(g)
      BY <2>1, <3>1, <3>2, ConcatIsSeq
    <3>4. \A j \in Range(f) : j.paths \in Seq(Seq(Words)) /\ j.name \in ColumnNames(p)
      BY <1>2, <1>5, <2>2, <2>3, <3>1 DEF Range
    <3>5. \A j \in Range(g) : j.paths \in Seq(Seq(Words)) /\ j.name \in ColumnNames(p)
      BY <1>2, <1>5, <2>2, <2>3, <3>2 DEF Range
    <3> QED
      BY <3>3, <3>4, <3>5
  <2> DEFINE entry(c, path) == [name |-> PathIndexName(p, c.name, path), column |-> c.name]
             s == [k \in DOMAIN js |->
                     LET c == js[k]
                     IN [l \in DOMAIN c.paths |->
                            [name |-> PathIndexName(p, c.name, c.paths[l]), column |-> c.name]]]
  <2>5. PathIndexes(p) = FlattenSeq(s)
    BY DEF PathIndexes, js
  <2>6. Len(js) \in Nat /\ DOMAIN js = 1..Len(js)
    BY <2>4, SeqIsSeq DEF IsSeq
  <2>7. /\ DOMAIN s = DOMAIN js /\ s = [k \in 1..Len(js) |-> s[k]]
        /\ \A k \in DOMAIN js : s[k] = [l \in DOMAIN js[k].paths |-> entry(js[k], js[k].paths[l])]
    BY <2>6
  <2>8. \A c, path : entry(c, path).column = c.name
    OBVIOUS
  <2> HIDE DEF s, entry
  <2>9. \A k \in DOMAIN js :
           IsSeq(s[k]) /\ \A x \in Range(s[k]) : x.column \in ColumnNames(p)
    <3> TAKE k \in DOMAIN js
    <3>1. js[k].paths \in Seq(Seq(Words)) /\ js[k].name \in ColumnNames(p)
      BY <2>4 DEF Range
    <3>2. Len(js[k].paths) \in Nat /\ DOMAIN js[k].paths = 1..Len(js[k].paths)
      BY <3>1, SeqIsSeq
    <3> DEFINE sk == s[k]
    <3>3. /\ sk = [l \in 1..Len(js[k].paths) |-> sk[l]]
          /\ \A l \in 1..Len(js[k].paths) : sk[l] = entry(js[k], js[k].paths[l])
      BY <2>7, <3>2
    <3> HIDE DEF sk
    <3>4. IsSeq(sk) /\ DOMAIN sk = 1..Len(js[k].paths)
      BY <3>2, <3>3, FunctionIsASeq
    <3>5. \A x \in Range(sk) : x.column \in ColumnNames(p)
      <4>1. \A l \in 1..Len(js[k].paths) : sk[l].column = js[k].name
        BY <2>8, <3>3
      <4>2. \A x \in Range(sk) : \E l \in 1..Len(js[k].paths) : x = sk[l]
        BY <3>4 DEF Range
      <4> QED
        BY <3>1, <4>1, <4>2
    <3> QED
      BY <3>4, <3>5 DEF sk
  <2>10. IsSeq(s)
    BY <2>6, <2>7, FunctionIsASeq
  <2>11. Range(PathIndexes(p)) = UNION { Range(s[k]) : k \in DOMAIN js }
    BY <2>5, <2>7, <2>9, <2>10, FlattenSeqRange
  <2> QED
    BY <2>9, <2>11
<1> DEFINE xs == PathIndexes(p) \o GinIndexes(p)
           entry(x) == CreateIndex(p, x.name, <<x.column>>, FALSE, FALSE)
<1>8. \A x \in Range(xs) : x.column \in ColumnNames(p)
  BY <1>6, <1>7, ImpliedIndexes, ConcatIsSeq
<1>9. JSONBIndexes(p) = [k \in DOMAIN xs |-> entry(xs[k])]
  BY DEF JSONBIndexes
<1>10. \A x : Range(entry(x).columns) = {x.column}
  BY <1>3 DEF CreateIndex
<1> HIDE DEF xs, entry
<1>11. \A x \in Range(JSONBIndexes(p)) : \E k \in DOMAIN xs : x = entry(xs[k])
  BY <1>9 DEF Range
<1>12. \A k \in DOMAIN xs : xs[k] \in Range(xs)
  BY DEF Range
<1> QED
  BY <1>8, <1>10, <1>11, <1>12

\* The indexes of a made plan are on columns of its table, and the unique ones cover what
\* partitions it.
LEMMA MadeIndexesFit ==
    ASSUME PartitionsInUniques, NEW ms \in Sources, NEW i \in DOMAIN ms, NEW p, MadeOf(p, ms, i)
    PROVE  \A x \in Range(RenderSchemaSQL(p)) \ {CreateTable(p)} : IndexFits(CreateTable(p), x)
<1> DEFINE m == ms[i]
           t == CreateTable(p)
           covered(columns) == Range(m.partition) \subseteq columns
<1>1. /\ p \in ResourcePlan /\ m \in ResourcePlan /\ SameDeclaration(p, m) /\ ValidPlan(m)
      /\ p.table = m.table /\ p.indexes = m.indexes /\ p.scope = m.scope
      /\ p.columns = m.columns /\ p.partition = m.partition /\ m \in Range(ms)
      /\ HasSupplementals(p.supplementals, m, Wanted(ms, AllKeys, i))
  <2>1. m \in ResourcePlan /\ m \in Range(ms)
    BY RequestFacts DEF Range
  <2> QED
    BY <2>1 DEF MadeOf, SameDeclaration
<1>2. t.columns = ColumnNames(m) /\ t.partition = Range(m.partition)
  BY <1>1, SameNames DEF CreateTable
<1>3. /\ Range(m.scope) \subseteq ColumnNames(m)
      /\ \A c \in Range(m.columns) : c.name \in ColumnNames(m)
      /\ \A fk \in Range(m.foreignKeys) : fk.column \in ColumnNames(m)
  <2>1. \A fk \in Range(m.foreignKeys) : \E c \in Range(m.columns) : c.name = fk.column
    BY RequestFacts
  <2> HIDE DEF m
  <2>2. Range(m.scope) \subseteq ColumnNames(m)
    BY <1>1 DEF ValidPlan, ValidKey
  <2>3. \A c \in Range(m.columns) : c.name \in ColumnNames(m)
    BY DEF ColumnNames
  <2> QED
    BY <2>1, <2>2, <2>3
<1>4. /\ \A x \in Range(m.indexes) : Range(x.columns) \subseteq ColumnNames(m)
      /\ \A x \in Range(m.indexes) : x.unique => covered(Range(x.columns))
      /\ \A c \in Range(m.columns) : c.unique => covered(Range(m.scope) \cup {c.name})
      /\ \A c \in Range(m.columns) : NeedsSupplemental(ms, m, c) => covered({m.scope[1], c.name})
  BY <1>1 DEF ValidPlan, ValidIndexes, PartitionsInUniques
<1>5. \A n, columns, unique, where :
         /\ CreateIndex(p, n, columns, unique, where).columns = columns
         /\ CreateIndex(p, n, columns, unique, where).unique = unique
  BY DEF CreateIndex
<1>6. \A fk \in Range(p.foreignKeys) : fk.column \in ColumnNames(m)
  <2> SUFFICES ASSUME NEW b \in DOMAIN p.foreignKeys
               PROVE  p.foreignKeys[b].column \in ColumnNames(m)
    BY DEF Range
  <2> DEFINE done == p.foreignKeys[b]
             fk == m.foreignKeys[b]
  <2>1. b \in DOMAIN m.foreignKeys /\ \E q, c : Says(done, m, fk, q, c)
    BY MadeKeys
  <2>2. fk \in Range(m.foreignKeys)
    BY <2>1 DEF Range
  <2> HIDE DEF m, fk, done
  <2>3. done.column = fk.column
    BY <2>1 DEF Says
  <2> QED
    BY <1>3, <2>2, <2>3 DEF done
<1>7. Range(p.supplementals) =
         { Supplemental(m, c) : c \in { d \in Range(m.columns) : NeedsSupplemental(ms, m, d) } }
  BY <1>1, NeededUniques DEF HasSupplementals
<1>8. \A n : /\ IsSeq(<<n>>) /\ Range(<<n>>) = {n}
             /\ \A k : Range(<<n, k>>) = {n, k}
  BY DEF IsSeq, Range
<1>9. IsSeq(m.scope)
  BY <1>1, WordsAreSeqs
<1>10. \A c : Supplemental(m, c).columns = <<m.scope[1], c.name>>
  BY DEF Supplemental
<1>11. \A c \in Range(m.columns) : NeedsSupplemental(ms, m, c) => m.scope[1] \in ColumnNames(m)
  <2>1. m.scope \in Seq(Words)
    BY <1>1 DEF ResourcePlan
  <2>2. m.scope # <<>> => 1 \in DOMAIN m.scope
    BY <2>1, LenProperties, EmptySeq
  <2> QED
    BY <1>3, <2>2 DEF NeedsSupplemental, Scoped, Range
<1> HIDE DEF m, t
<1>12. ASSUME NEW n, NEW columns, NEW unique, NEW where, Range(columns) \subseteq ColumnNames(m),
              unique => covered(Range(columns))
       PROVE  IndexFits(t, CreateIndex(p, n, columns, unique, where))
  <2> DEFINE x == CreateIndex(p, n, columns, unique, where)
  <2>1. x.columns = columns /\ x.unique = unique
    BY <1>5
  <2> HIDE DEF x
  <2>2. IndexFits(t, x)
    BY <1>2, <1>12, <2>1 DEF IndexFits
  <2> QED
    BY <2>2 DEF x
<1>13. \A x \in Range(Supplementals(p)) : IndexFits(t, x)
  <2> DEFINE C == { d \in Range(m.columns) : NeedsSupplemental(ms, m, d) }
  <2>1. \A uq \in Range(p.supplementals) : IndexFits(t, CreateIndex(p, uq.name, uq.columns, TRUE, FALSE))
    <3> SUFFICES ASSUME NEW c \in C
                 PROVE  IndexFits(t, CreateIndex(p, Supplemental(m, c).name,
                                                 Supplemental(m, c).columns, TRUE, FALSE))
      BY <1>7
    <3>1. Range(Supplemental(m, c).columns) = {m.scope[1], c.name}
      BY <1>8, <1>10
    <3>2. {m.scope[1], c.name} \subseteq ColumnNames(m) /\ covered({m.scope[1], c.name})
      BY <1>3, <1>4, <1>11
    <3> QED
      BY <1>12, <3>1, <3>2
  <2>2. Range(Supplementals(p)) =
           { CreateIndex(p, uq.name, uq.columns, TRUE, FALSE) : uq \in Range(p.supplementals) }
    BY <1>1, RenderedIndexes
  <2> QED
    BY <2>1, <2>2
<1>14. \A x \in Range(Indexes(p)) : IndexFits(t, x)
  <2>1. \A y \in Range(m.indexes) :
           IndexFits(t, CreateIndex(p, y.name, y.columns, y.unique, y.where))
    BY <1>4, <1>12
  <2>2. Range(Indexes(p)) =
           { CreateIndex(p, y.name, y.columns, y.unique, y.where) : y \in Range(m.indexes) }
    BY <1>1, RenderedIndexes
  <2> QED
    BY <2>1, <2>2
<1>15. \A x \in Range(UniqueColumnIndexes(p)) : IndexFits(t, x)
  <2> DEFINE C == { d \in Range(p.columns) : d.unique }
  <2>1. ASSUME NEW c \in C
        PROVE  IndexFits(t, CreateIndex(p, UniqueName(p, c.name), p.scope \o <<c.name>>, TRUE, FALSE))
    <3>1. Range(p.scope \o <<c.name>>) = Range(p.scope) \cup {c.name}
      BY <1>1, <1>8, <1>9, ConcatIsSeq
    <3>2. /\ Range(p.scope) \cup {c.name} \subseteq ColumnNames(m)
          /\ covered(Range(p.scope) \cup {c.name})
      BY <1>1, <1>3, <1>4
    <3> QED
      BY <1>12, <3>1, <3>2
  <2>2. Range(UniqueColumnIndexes(p)) =
           { CreateIndex(p, UniqueName(p, c.name), p.scope \o <<c.name>>, TRUE, FALSE) : c \in C }
    BY <1>1, RenderedIndexes
  <2> HIDE DEF C
  <2> QED
    BY <2>1, <2>2
<1>16. \A x \in Range(JSONBIndexes(p)) : IndexFits(t, x)
  <2>1. \A x \in Range(JSONBIndexes(p)) : ~x.unique /\ Range(x.columns) \subseteq ColumnNames(p)
    BY <1>1, RenderedIndexes, JSONBIndexColumns
  <2>2. ColumnNames(p) = ColumnNames(m)
    BY <1>1, SameNames
  <2> QED
    BY <1>2, <2>1, <2>2 DEF IndexFits
<1>17. \A x \in Range(ForeignKeyIndexes(p)) : IndexFits(t, x)
  <2>1. \A fk \in Range(p.foreignKeys) :
           IndexFits(t, CreateIndex(p, FKIndexName(p, fk.column), <<fk.column>>, FALSE, FALSE))
    <3> TAKE fk \in Range(p.foreignKeys)
    <3>1. Range(<<fk.column>>) \subseteq ColumnNames(m)
      BY <1>6, <1>8
    <3> QED
      BY <1>12, <3>1
  <2>2. Range(ForeignKeyIndexes(p)) =
           { CreateIndex(p, FKIndexName(p, fk.column), <<fk.column>>, FALSE, FALSE) :
                fk \in { r \in Range(p.foreignKeys) : r.backing } }
    BY <1>1, RenderedIndexes
  <2> QED
    BY <2>1, <2>2
<1> QED
  BY <1>1, <1>13, <1>14, <1>15, <1>16, <1>17, RenderedStatements DEF t

\* What a reference refers to is unique: by the key, by an index of the column's own, or
\* by the one added for the reference.
LEMMA TargetIsUnique ==
    ASSUME TenantScopedTargets, SelfReferencesByKey,
           NEW ms \in Sources, NEW i \in DOMAIN ms, NEW j \in DOMAIN ms,
           NEW b \in DOMAIN ms[i].foreignKeys, NEW c \in TargetColumns(ms[j], ms[i].foreignKeys[b]),
           ms[j].fqn = ms[i].foreignKeys[b].message, Scoped(ms[i]) = Scoped(ms[j]),
           Resolvable(ms, ms[i], ms[i].foreignKeys[b]),
           NEW q, MadeOf(q, ms, j), NEW catalog, CreateTable(q) \in catalog,
           i # j => Range(RenderSchemaSQL(q)) \subseteq catalog
    PROVE  UniqueOn(catalog, q.table,
                    IF Scoped(ms[i]) THEN {ms[j].scope[1], c.name} ELSE {c.name})
<1> DEFINE m == ms[j]
           fk == ms[i].foreignKeys[b]
           wanted == IF Scoped(ms[i]) THEN {m.scope[1], c.name} ELSE {c.name}
<1>1. /\ q \in ResourcePlan /\ m \in ResourcePlan /\ SameDeclaration(q, m)
      /\ q.table = m.table /\ q.scope = m.scope /\ q.columns = m.columns
      /\ q.primaryKey = m.primaryKey
      /\ HasSupplementals(q.supplementals, m, Wanted(ms, AllKeys, j))
  <2>1. m \in ResourcePlan
    BY RequestFacts
  <2> QED
    BY <2>1 DEF MadeOf, SameDeclaration
<1>2. /\ m \in Range(ms) /\ ms[i] \in Range(ms) /\ fk \in Range(ms[i].foreignKeys)
      /\ c \in Range(m.columns) /\ c.field = fk.field /\ ~SynthesizedColumn(c)
  BY DEF Range, TargetColumns
<1>3. \A n, columns :
         /\ CreateIndex(q, n, columns, TRUE, FALSE).op = "index"
         /\ CreateIndex(q, n, columns, TRUE, FALSE).table = q.table
         /\ CreateIndex(q, n, columns, TRUE, FALSE).columns = columns
         /\ CreateIndex(q, n, columns, TRUE, FALSE).unique = TRUE
         /\ CreateIndex(q, n, columns, TRUE, FALSE).where = FALSE
  BY DEF CreateIndex
<1>4. \A n : /\ IsSeq(<<n>>) /\ Range(<<n>>) = {n}
             /\ \A k : Range(<<n, k>>) = {n, k}
  BY DEF IsSeq, Range
<1> HIDE DEF m, fk, wanted
<1>5. ASSUME Range(m.primaryKey) = wanted
      PROVE  UniqueOn(catalog, q.table, wanted)
  <2> DEFINE x == PrimaryKeyIndex(CreateTable(q))
  <2>1. x.table = q.table /\ x.unique /\ ~x.where /\ x.columns = m.primaryKey
    BY <1>1 DEF PrimaryKeyIndex, CreateTable
  <2>2. CreateTable(q) \in TablesOf(catalog)
    BY DEF TablesOf, CreateTable
  <2>3. x \in IndexesOf(catalog)
    BY <2>2 DEF IndexesOf
  <2> HIDE DEF x
  <2> QED
    BY <1>5, <2>1, <2>3 DEF UniqueOn
<1>6. ASSUME i # j, NEW n, NEW columns, Range(columns) = wanted,
             CreateIndex(q, n, columns, TRUE, FALSE) \in Range(RenderSchemaSQL(q))
      PROVE  UniqueOn(catalog, q.table, wanted)
  <2> DEFINE x == CreateIndex(q, n, columns, TRUE, FALSE)
  <2>1. x.op = "index" /\ x.table = q.table /\ x.columns = columns /\ x.unique /\ ~x.where
    BY <1>3
  <2>2. x \in catalog
    BY <1>6
  <2> HIDE DEF x
  <2>3. x \in IndexesOf(catalog)
    BY <2>1, <2>2 DEF IndexesOf
  <2> QED
    BY <1>6, <2>1, <2>3 DEF UniqueOn
<1>7. ASSUME c.unique, i # j, Range(m.scope \o <<c.name>>) = wanted
      PROVE  UniqueOn(catalog, q.table, wanted)
  <2>1. CreateIndex(q, UniqueName(q, c.name), q.scope \o <<c.name>>, TRUE, FALSE)
           \in Range(UniqueColumnIndexes(q))
    BY <1>1, <1>2, <1>7, RenderedIndexes
  <2>2. CreateIndex(q, UniqueName(q, c.name), q.scope \o <<c.name>>, TRUE, FALSE)
           \in Range(RenderSchemaSQL(q))
    BY <1>1, <2>1, RenderedStatements
  <2> QED
    BY <1>1, <1>6, <1>7, <2>2
<1>8. Range(m.scope \o <<c.name>>) = Range(m.scope) \cup {c.name}
  <2>1. IsSeq(m.scope)
    BY <1>1, WordsAreSeqs
  <2> QED
    BY <1>4, <2>1, ConcatIsSeq
<1>9. i = j => IF Scoped(m) THEN TargetPKCoversTenantComposite(m, c.name)
                            ELSE m.primaryKey = <<c.name>>
  BY <1>2 DEF SelfReferencesByKey, m, fk
<1>10. CASE Scoped(ms[i])
  <2>1. Scoped(m) /\ wanted = {m.scope[1], c.name}
    BY <1>10 DEF m, wanted
  <2>2. CASE TargetPKCoversTenantComposite(m, c.name)
    BY <1>5, <2>1, <2>2 DEF TargetPKCoversTenantComposite, wanted, m
  <2>3. CASE ~TargetPKCoversTenantComposite(m, c.name) /\ c.unique
    <3>1. i # j
      BY <1>9, <2>1, <2>3
    <3>2. Range(m.scope) = {m.scope[1]}
      <4>1. Len(m.scope) <= 1 /\ m.scope \in Seq(Words) /\ m.scope # <<>>
        BY <1>1, <1>2, <2>1 DEF TenantScopedTargets, m, fk, ResourcePlan, Scoped
      <4>2. DOMAIN m.scope = {1}
        BY <4>1, LenProperties, EmptySeq
      <4> QED
        BY <4>2 DEF Range
    <3> QED
      BY <1>7, <1>8, <2>1, <2>3, <3>1, <3>2 DEF wanted, m
  <2>4. CASE ~TargetPKCoversTenantComposite(m, c.name) /\ ~c.unique
    <3>1. i # j
      BY <1>9, <2>1, <2>4
    <3>2. c \in Wanted(ms, AllKeys, j)
      <4>1. i \in Nat /\ b \in Nat
        <5>1. DOMAIN ms = 1..Len(ms) /\ ms[i].foreignKeys \in Seq(ForeignKeyPlan)
          BY RequestFacts
        <5> QED
          BY <5>1, LenProperties
      <4>2. <<i, b>> \in AllKeys
        BY <4>1 DEF AllKeys
      <4> QED
        BY <1>2, <2>1, <2>4, <4>2 DEF Wanted, m, fk
    <3>3. Supplemental(m, c) \in Range(q.supplementals)
      BY <1>1, <3>2 DEF HasSupplementals
    <3>4. Supplemental(m, c).columns = <<m.scope[1], c.name>>
      BY DEF Supplemental
    <3>5. CreateIndex(q, Supplemental(m, c).name, Supplemental(m, c).columns, TRUE, FALSE)
             \in Range(Supplementals(q))
      BY <1>1, <3>3, RenderedIndexes
    <3>6. CreateIndex(q, Supplemental(m, c).name, Supplemental(m, c).columns, TRUE, FALSE)
             \in Range(RenderSchemaSQL(q))
      BY <1>1, <3>5, RenderedStatements
    <3>7. Range(Supplemental(m, c).columns) = wanted
      BY <1>4, <2>1, <3>4
    <3> QED
      BY <1>6, <3>1, <3>6, <3>7 DEF wanted, m
  <2> QED
    BY <2>2, <2>3, <2>4
<1>11. CASE ~Scoped(ms[i])
  <2>1. ~Scoped(m) /\ wanted = {c.name}
    BY <1>11 DEF m, wanted
  <2>2. m.primaryKey = <<c.name>> \/ c.unique
    <3>1. PICK k \in Targets(ms, fk) : \E d \in TargetColumns(ms[k], fk) : IsFKEligibleTarget(ms[k], d)
      BY <1>11 DEF Resolvable, fk
    <3>2. k = j
      <4>1. DistinctMessages(ms)
        BY RequestFacts
      <4> QED
        BY <3>1, <4>1 DEF Targets, DistinctMessages, fk
    <3>3. PICK d \in TargetColumns(m, fk) : IsFKEligibleTarget(m, d)
      BY <3>1, <3>2 DEF m
    <3>4. d = c
      <4>1. \A x, y \in Range(m.columns) : x.field = y.field /\ ~SynthesizedColumn(x) => x = y
        BY RequestFacts DEF m
      <4> QED
        BY <1>2, <3>3, <4>1 DEF TargetColumns
    <3> QED
      BY <3>3, <3>4 DEF IsFKEligibleTarget
  <2>3. CASE m.primaryKey = <<c.name>>
    BY <1>4, <1>5, <2>1, <2>3 DEF wanted, m
  <2>4. CASE m.primaryKey # <<c.name>> /\ c.unique
    <3>1. i # j
      BY <1>9, <2>1, <2>4
    <3>2. Range(m.scope) = {}
      <4>1. m.scope = <<>>
        BY <2>1 DEF Scoped
      <4> QED
        BY <4>1 DEF Range
    <3> QED
      BY <1>7, <1>8, <2>1, <2>4, <3>1, <3>2 DEF wanted, m
  <2> QED
    BY <2>2, <2>3, <2>4
<1> QED
  BY <1>10, <1>11

\* The names of a catalog made of parts.
LEMMA RelationNamesUnion ==
    ASSUME NEW P
    PROVE  RelationNames(UNION P) = UNION { RelationNames(S) : S \in P }
<1> DEFINE Has(s, n) == \/ s.op = "table" /\ (n = s.name \/ n = PrimaryKeyIndex(s).name)
                        \/ s.op = "index" /\ n = s.name
<1>1. \A S : \A n : n \in RelationNames(S) <=> \E s \in S : Has(s, n)
  BY DEF RelationNames, IndexesOf, TablesOf
<1> HIDE DEF Has
<1>2. \A n : n \in RelationNames(UNION P) <=> \E S \in P : n \in RelationNames(S)
  BY <1>1
<1> QED
  BY <1>2

\* PostgreSQL accepts the file of message i after files of its directory that are those
\* of messages D, among them all the messages i refers to.
LEMMA FileAccepted ==
    ASSUME TenantScopedTargets, SelfReferencesByKey, PartitionsInUniques, DistinctNames,
           NEW ms \in Sources, NEW i \in DOMAIN ms, NEW plans,
           \A j \in DOMAIN ms : MadeOf(plans[j], ms, j),
           \A b \in DOMAIN ms[i].foreignKeys : Resolvable(ms, ms[i], ms[i].foreignKeys[b]),
           NEW D \in SUBSET (DOMAIN ms \ {i}), \A j \in D : ms[j].dir = ms[i].dir,
           \A j \in DOMAIN ms \ {i} : \A b \in DOMAIN ms[i].foreignKeys :
              ms[i].foreignKeys[b].message = ms[j].fqn => j \in D,
           NEW catalog, catalog = UNION { Range(RenderSchemaSQL(plans[j])) : j \in D }
    PROVE  AcceptsFile(catalog, RenderSchemaSQL(plans[i]))
<1> DEFINE p == plans[i]
           file == RenderSchemaSQL(p)
           t == CreateTable(p)
           own == IndexNames(ms, ms[i]) \cup TableNames(ms[i])
<1>1. /\ MadeOf(p, ms, i) /\ p \in ResourcePlan /\ p.table = ms[i].table
  BY DEF MadeOf, SameDeclaration
<1>2. /\ Len(file) \in Nat /\ DOMAIN file = 1..Len(file) /\ file[1] = t
      /\ 1 \in DOMAIN file /\ DistinctlyNamed(file)
      /\ \A x \in Range(file) \ {t} : x.op = "index" /\ x.table = p.table /\ IndexFits(t, x)
                                      /\ x.name \in IndexNames(ms, ms[i])
  BY <1>1, FileNames, MadeNames, OneTablePerFile, MadeIndexesFit
<1>3. t.op = "table" /\ t.name = p.table /\ t.name \in TableNames(ms[i])
      /\ PrimaryKeyIndex(t).name \in TableNames(ms[i])
  BY <1>1 DEF CreateTable, PrimaryKeyIndex, TableNames
<1>4. TableNames(ms[i]) \cap IndexNames(ms, ms[i]) = {}
  BY DEF DistinctNames
<1>5. RelationNames(catalog) \cap own = {}
  <2>1. ASSUME NEW j \in D
        PROVE  RelationNames(Range(RenderSchemaSQL(plans[j]))) \cap own = {}
    <3>1. RelationNames(Range(RenderSchemaSQL(plans[j]))) \subseteq
             IndexNames(ms, ms[j]) \cup TableNames(ms[j])
      BY MadeRelations
    <3>2. (IndexNames(ms, ms[j]) \cup TableNames(ms[j])) \cap own = {}
      BY DEF DistinctNames
    <3> QED
      BY <3>1, <3>2
  <2> DEFINE P == { Range(RenderSchemaSQL(plans[j])) : j \in D }
  <2>2. \A S \in P : RelationNames(S) \cap own = {}
    BY <2>1
  <2>3. RelationNames(catalog) = UNION { RelationNames(S) : S \in P }
    BY RelationNamesUnion
  <2> HIDE DEF P, own
  <2> QED
    BY <2>2, <2>3
<1>6. ASSUME NEW f \in t.foreignKeys
      PROVE  UniqueOn(catalog \cup {t}, f.table, Range(f.target))
  <2>1. PICK b \in DOMAIN p.foreignKeys :
           f.table = p.foreignKeys[b].table /\ f.target = p.foreignKeys[b].target
    BY DEF CreateTable, Range
  <2> DEFINE m == ms[i]
             fk == m.foreignKeys[b]
             done == p.foreignKeys[b]
  <2>2. b \in DOMAIN m.foreignKeys /\ \E q \in Range(ms) : \E c \in TargetColumns(q, fk) :
           q.fqn = fk.message /\ Scoped(m) = Scoped(q) /\ Says(done, m, fk, q, c)
    BY <1>1, MadeKeys
  <2>3. PICK j \in DOMAIN ms : \E c \in TargetColumns(ms[j], fk) :
           ms[j].fqn = fk.message /\ Scoped(m) = Scoped(ms[j]) /\ Says(done, m, fk, ms[j], c)
    BY <2>2 DEF Range
  <2>4. PICK c \in TargetColumns(ms[j], fk) :
           ms[j].fqn = fk.message /\ Scoped(m) = Scoped(ms[j]) /\ Says(done, m, fk, ms[j], c)
    BY <2>3
  <2> DEFINE q == plans[j]
             wanted == IF Scoped(m) THEN {ms[j].scope[1], c.name} ELSE {c.name}
  <2>5. MadeOf(q, ms, j) /\ q \in ResourcePlan /\ q.table = ms[j].table
    BY DEF MadeOf, SameDeclaration
  <2>6. i # j => j \in D
    BY <2>2, <2>4
  <2>7. i # j => Range(RenderSchemaSQL(q)) \subseteq catalog \cup {t}
    BY <2>6
  <2>8. CreateTable(q) \in catalog \cup {t}
    <3>1. CreateTable(q) \in Range(RenderSchemaSQL(q))
      BY <2>5, RenderedStatements
    <3> QED
      BY <2>7, <3>1
  <2>9. UniqueOn(catalog \cup {t}, q.table, wanted)
    <3> HIDE DEF t, q, p
    <3> QED
      BY <2>2, <2>4, <2>5, <2>7, <2>8, TargetIsUnique
  <2>10. f.table = q.table /\ Range(f.target) = wanted
    <3>1. \A x, y : Range(<<x>>) = {x} /\ Range(<<x, y>>) = {x, y}
      BY DEF Range
    <3>2. /\ done.table = ms[j].table
          /\ done.target = IF Scoped(m) THEN <<ms[j].scope[1], c.name>> ELSE <<c.name>>
      BY <2>4 DEF Says
    <3>3. f.table = q.table /\ f.target = done.target
      BY <2>1, <2>5, <3>2
    <3> HIDE DEF m, fk, done
    <3>4. Range(f.target) = wanted
      <4>1. CASE Scoped(m)
        BY <3>1, <3>2, <3>3, <4>1
      <4>2. CASE ~Scoped(m)
        BY <3>1, <3>2, <3>3, <4>2
      <4> QED
        BY <4>1, <4>2
    <3> QED
      BY <3>3, <3>4
  <2> QED
    BY <2>9, <2>10
<1> HIDE DEF p, file, t, own
<1>7. AcceptsTable(catalog, t)
  <2>1. t.name \notin RelationNames(catalog)
    BY <1>3, <1>5 DEF own
  <2> QED
    BY <1>6, <2>1 DEF AcceptsTable
<1>8. ASSUME NEW k \in DOMAIN file, k # 1,
             NEW before, before = catalog \cup { file[l] : l \in 1..(k - 1) }
      PROVE  file[k].op = "index" /\ AcceptsIndex(before, file[k])
  <2> DEFINE x == file[k]
             part == { file[l] : l \in 1..(k - 1) }
  <2>1. \A l \in 1..(k - 1) : l \in DOMAIN file /\ l # k
    BY <1>2
  <2>2. \A l \in 1..(k - 1) : file[l].name # x.name
    BY <1>2, <2>1 DEF DistinctlyNamed
  <2>3. x \in Range(file) \ {t} /\ 1 \in 1..(k - 1)
    <3>1. 1 \in 1..(k - 1)
      BY <1>2, <1>8
    <3> QED
      BY <1>2, <2>2, <3>1 DEF Range
  <2>4. /\ x.op = "index" /\ x.table = t.name /\ IndexFits(t, x) /\ x.name \in IndexNames(ms, ms[i])
    BY <1>2, <1>3, <2>3
  <2>5. t \in TablesOf(before)
    BY <1>2, <1>3, <1>8, <2>3 DEF TablesOf
  <2>6. x.name \notin RelationNames(part)
    <3>1. \A s \in part : s.name # x.name
      BY <2>2
    <3>2. \A s \in part : s.op = "table" => s = t
      <4>1. \A l \in 1..(k - 1) : file[l] \in Range(file)
        BY <2>1 DEF Range
      <4>2. "index" # "table"
        OBVIOUS
      <4> QED
        BY <1>2, <4>1, <4>2
    <3>3. PrimaryKeyIndex(t).name # x.name
      BY <1>3, <1>4, <2>4
    <3> HIDE DEF x, part
    <3> QED
      BY <3>1, <3>2, <3>3 DEF RelationNames, TablesOf, IndexesOf
  <2>7. x.name \notin RelationNames(catalog)
    BY <1>5, <2>4 DEF own
  <2>8. RelationNames(before) = RelationNames(catalog) \cup RelationNames(part)
    <3>1. before = UNION {catalog, part}
      BY <1>8
    <3> HIDE DEF part
    <3>2. RelationNames(before) = UNION { RelationNames(S) : S \in {catalog, part} }
      BY <3>1, RelationNamesUnion
    <3> QED
      BY <3>2
  <2> HIDE DEF x, part
  <2>9. AcceptsIndex(before, x)
    BY <2>4, <2>5, <2>6, <2>7, <2>8 DEF AcceptsIndex, IndexFits
  <2> QED
    BY <2>4, <2>9 DEF x
<1>9. ASSUME NEW k \in DOMAIN file
      PROVE  LET before == catalog \cup { file[l] : l \in 1..(k - 1) } IN
             IF file[k].op = "table" THEN AcceptsTable(before, file[k])
                                     ELSE AcceptsIndex(before, file[k])
  <2>1. CASE k = 1
    <3>1. catalog \cup { file[l] : l \in 1..(k - 1) } = catalog
      BY <2>1
    <3> QED
      BY <1>2, <1>3, <1>7, <2>1, <3>1
  <2>2. CASE k # 1
    <3>1. "index" # "table"
      OBVIOUS
    <3> QED
      BY <1>8, <2>2, <3>1
  <2> QED
    BY <2>1, <2>2
<1> QED
  BY <1>9 DEF AcceptsFile, file, p

---------------------------------------------------------------------------
(* Runs that never fail in a database *)

\* The foreign keys passed, none of which has failed, can be resolved.
ResolvedInv ==
    stage \in {"emit", "apply", "done"} \/ (stage = "references" /\ errors = {}) =>
        \A a \in DOMAIN messages : \A b \in DOMAIN messages[a].foreignKeys :
            <<a, b>> \in PassedKeys => Resolvable(messages, messages[a], messages[a].foreignKeys[b])

\* Whether a key can be resolved does not depend on what completion adds.
LEMMA SameResolution ==
    ASSUME NEW plans, NEW ms, DOMAIN plans = DOMAIN ms,
           \A k \in DOMAIN ms : SameDeclaration(plans[k], ms[k]),
           NEW p, NEW m, SameDeclaration(p, m), NEW fk, Resolvable(plans, p, fk)
    PROVE  Resolvable(ms, m, fk)
<1>1. PICK k \in Targets(plans, fk) : \E c \in TargetColumns(plans[k], fk) :
         Scoped(p) = Scoped(plans[k]) /\ (Scoped(p) \/ IsFKEligibleTarget(plans[k], c))
  BY DEF Resolvable
<1>2. PICK c \in TargetColumns(plans[k], fk) :
         Scoped(p) = Scoped(plans[k]) /\ (Scoped(p) \/ IsFKEligibleTarget(plans[k], c))
  BY <1>1
<1>3. k \in Targets(ms, fk) /\ k \in DOMAIN ms
  BY DEF Targets, SameDeclaration
<1>4. c \in TargetColumns(ms[k], fk)
  BY <1>2, <1>3 DEF TargetColumns, SameDeclaration
<1>5. Scoped(m) = Scoped(p) /\ Scoped(ms[k]) = Scoped(plans[k])
  BY <1>3 DEF Scoped, SameDeclaration
<1>6. IsFKEligibleTarget(plans[k], c) => IsFKEligibleTarget(ms[k], c)
  BY <1>3 DEF IsFKEligibleTarget, SameDeclaration
<1> QED
  BY <1>2, <1>3, <1>4, <1>5, <1>6 DEF Resolvable

LEMMA NextKeepsResolved ==
    ASSUME GenInv, ResolvedInv, [Next]_vars
    PROVE  ResolvedInv'
<1>1. RunInv /\ PlansInv /\ KeysInv
  BY DEF GenInv
<1>2. ASSUME NEW ms \in Sources, Run(ms)
      PROVE  ResolvedInv'
  BY <1>2 DEF Run, ResolvedInv
<1>3. CASE EndResolve
  <2> SUFFICES ASSUME stage' = "references",
                      NEW a \in DOMAIN messages', NEW b \in DOMAIN messages'[a].foreignKeys
               PROVE  <<a, b>> \notin PassedKeys'
    BY <1>3 DEF EndResolve, EndStage, ResolvedInv
  <2>1. stage = "resolve" /\ at' = 1 /\ atKey' = atKey /\ messages' = messages
    BY <1>3 DEF EndResolve, EndStage
  <2>2. atKey = 1
    BY <1>1, <2>1 DEF RunInv
  <2>3. /\ a \in 1..Len(messages) /\ Len(messages) \in Nat
        /\ messages[a].foreignKeys \in Seq(ForeignKeyPlan)
    BY <1>1, <2>1, RequestFacts DEF RunInv
  <2>4. b \in 1..Len(messages[a].foreignKeys) /\ Len(messages[a].foreignKeys) \in Nat
    BY <2>1, <2>3, LenProperties
  <2>5. PassedKeys' = { ab \in AllKeys : ab[1] < 1 \/ (ab[1] = 1 /\ ab[2] < 1) }
    BY <2>1, <2>2 DEF PassedKeys
  <2> QED
    BY <2>3, <2>4, <2>5
<1>4. CASE CompleteForeignKey
  <2>1. /\ stage = "references" /\ stage' = "references" /\ messages' = messages
        /\ at' = at /\ atKey' = atKey + 1
        /\ errors' = IF FKAccepted(pending, at, atKey) THEN errors
                                                       ELSE errors \cup {<<at, atKey>>}
    BY <1>4 DEF CompleteForeignKey
  <2> SUFFICES ASSUME errors' = {},
                      NEW a \in DOMAIN messages, NEW b \in DOMAIN messages[a].foreignKeys,
                      <<a, b>> \in PassedKeys'
               PROVE  Resolvable(messages, messages[a], messages[a].foreignKeys[b])
    BY <2>1 DEF ResolvedInv
  <2>2. errors = {} /\ Resolvable(pending, pending[at], pending[at].foreignKeys[atKey])
    BY <2>1 DEF FKAccepted
  <2>3. at \in DOMAIN pending /\ atKey \in DOMAIN pending[at].foreignKeys
    BY <1>1, <1>4, NextKey
  <2>4. /\ DOMAIN messages = DOMAIN pending
        /\ \A k \in DOMAIN messages :
              /\ SameDeclaration(pending[k], messages[k])
              /\ DOMAIN pending[k].foreignKeys = DOMAIN messages[k].foreignKeys
              /\ DOMAIN pending[k].foreignKeys = 1..Len(pending[k].foreignKeys)
              /\ Len(pending[k].foreignKeys) \in Nat
        /\ DOMAIN pending = 1..Len(pending) /\ Len(pending) \in Nat
    BY <1>1, <2>1, PlansOfMessages
  <2>5. at \in Nat /\ atKey \in Nat /\ a \in Nat /\ b \in Nat
    BY <1>1, <2>4 DEF RunInv
  <2>6. PassedKeys = { ab \in AllKeys : ab[1] < at \/ (ab[1] = at /\ ab[2] < atKey) }
    BY <2>1 DEF PassedKeys
  <2>7. PassedKeys' = { ab \in AllKeys : ab[1] < at \/ (ab[1] = at /\ ab[2] < atKey + 1) }
    BY <2>1 DEF PassedKeys
  <2>8. CASE <<a, b>> \in PassedKeys
    BY <2>1, <2>2, <2>8 DEF ResolvedInv
  <2>9. CASE <<a, b>> \notin PassedKeys
    <3>1. a = at /\ b = atKey
      BY <2>5, <2>6, <2>7, <2>9 DEF AllKeys
    <3>2. Completes(pending, messages, PassedKeys)
      BY <1>1, <2>1, <2>2 DEF KeysInv
    <3>3. pending[a].foreignKeys[b] = messages[a].foreignKeys[b]
      BY <2>9, <3>2 DEF Completes
    <3>4. Resolvable(pending, pending[a], messages[a].foreignKeys[b])
      BY <2>2, <3>1, <3>3
    <3>5. Resolvable(messages, messages[a], messages[a].foreignKeys[b])
      BY <2>4, <3>4, SameResolution
    <3> QED
      BY <3>5
  <2> QED
    BY <2>8, <2>9
<1>5. CASE NextPlan \/ EndReferences
  <2>1. /\ stage = "references" /\ messages' = messages /\ pending' = pending
        /\ NextPlan => /\ stage' = "references" /\ errors' = errors
                       /\ at <= Len(pending) /\ atKey > Len(pending[at].foreignKeys)
                       /\ at' = at + 1 /\ atKey' = 1
        /\ EndReferences => /\ stage' = IF errors = {} THEN "emit" ELSE "failed"
                            /\ at > Len(pending)
    BY <1>5 DEF NextPlan, EndReferences, EndStage
  <2> SUFFICES ASSUME errors = {},
                      NEW a \in DOMAIN messages, NEW b \in DOMAIN messages[a].foreignKeys,
                      <<a, b>> \in PassedKeys'
               PROVE  <<a, b>> \in PassedKeys
    BY <1>5, <2>1 DEF ResolvedInv
  <2>2. /\ DOMAIN messages = DOMAIN pending
        /\ \A k \in DOMAIN messages :
              /\ DOMAIN pending[k].foreignKeys = DOMAIN messages[k].foreignKeys
              /\ DOMAIN pending[k].foreignKeys = 1..Len(pending[k].foreignKeys)
              /\ Len(pending[k].foreignKeys) \in Nat
        /\ DOMAIN pending = 1..Len(pending) /\ Len(pending) \in Nat
    BY <1>1, <2>1, PlansOfMessages
  <2>3. at \in Nat \ {0} /\ atKey \in Nat
    BY <1>1 DEF RunInv
  <2>4. PassedKeys = { ab \in AllKeys : ab[1] < at \/ (ab[1] = at /\ ab[2] < atKey) }
    BY <2>1 DEF PassedKeys
  <2>5. /\ a \in 1..Len(pending) /\ b \in 1..Len(pending[a].foreignKeys)
        /\ Len(pending[a].foreignKeys) \in Nat
    BY <2>2
  <2>6. CASE NextPlan
    <3>1. PassedKeys' =
             { ab \in AllKeys : ab[1] < at + 1 \/ (ab[1] = at + 1 /\ ab[2] < 1) }
      BY <2>1, <2>6 DEF PassedKeys
    <3>2. a = at => b < atKey
      BY <2>1, <2>3, <2>5, <2>6
    <3> QED
      BY <2>3, <2>4, <2>5, <3>1, <3>2 DEF AllKeys
  <2>7. CASE EndReferences
    <3>1. a < at
      BY <2>1, <2>2, <2>3, <2>5, <2>7
    <3> QED
      BY <2>4, <2>5, <3>1 DEF AllKeys
  <2> QED
    BY <1>5, <2>6, <2>7
<1>6. CASE ResolveMessage
  BY <1>6 DEF ResolveMessage, ResolvedInv
<1>7. CASE EmitPlan \/ EndEmit \/ SortDir \/ CycleFound \/ ApplyFile \/ NextDir
  <2>1. messages' = messages /\ stage \in {"emit", "apply"} /\ stage' # "references"
    BY <1>7 DEF EmitPlan, EndEmit, EndStage, SortDir, CycleFound, ApplyFile, NextDir
  <2>2. PassedKeys = AllKeys /\ PassedKeys' = AllKeys
    BY <2>1 DEF PassedKeys
  <2> QED
    BY <2>1, <2>2 DEF ResolvedInv
<1>8. CASE SortStep \/ UNCHANGED vars
  <2>1. UNCHANGED <<messages, stage, errors, at, atKey>>
    BY <1>8 DEF SortStep, vars, runVars
  <2>2. PassedKeys' = PassedKeys
    BY <2>1 DEF PassedKeys
  <2> QED
    BY <2>1, <2>2 DEF ResolvedInv
<1> QED
  BY <1>2, <1>3, <1>4, <1>5, <1>6, <1>7, <1>8 DEF Next, Step

\* While files are applied, that of every plan holds its statements.
FilesInv ==
    stage = "apply" =>
        \A k \in DOMAIN pending :
            /\ PathOf(pending[k]) \in DOMAIN disk
            /\ disk[PathOf(pending[k])] = RenderSchemaSQL(pending[k])

LEMMA NextKeepsFiles ==
    ASSUME GenInv, WrittenInv, FilesInv, [Next]_vars
    PROVE  FilesInv'
<1>1. CASE EndEmit
  <2>1. /\ stage = "emit" /\ at > Len(pending) /\ pending' = pending /\ disk' = disk
    BY <1>1 DEF EndEmit
  <2>2. DOMAIN pending = 1..Len(pending) /\ Len(pending) \in Nat /\ at \in Nat
    BY LenProperties DEF GenInv, RunInv
  <2>3. \A k \in DOMAIN pending : k < at
    BY <2>1, <2>2
  <2> QED
    BY <2>1, <2>3 DEF WrittenInv, FilesInv
<1>2. CASE SortDir \/ SortStep \/ CycleFound \/ ApplyFile \/ NextDir \/ UNCHANGED vars
  <2>1. pending' = pending /\ disk' = disk /\ (stage' = "apply" => stage = "apply")
    BY <1>2 DEF SortDir, SortStep, CycleFound, ApplyFile, NextDir, vars, runVars
  <2> QED
    BY <2>1 DEF FilesInv
<1>3. ASSUME NEW ms \in Sources, Run(ms)
      PROVE  FilesInv'
  BY <1>3 DEF Run, FilesInv
<1>4. CASE ResolveMessage \/ EndResolve \/ CompleteForeignKey \/ NextPlan \/ EndReferences \/ EmitPlan
  <2>1. stage' # "apply"
    BY <1>4 DEF ResolveMessage, EndResolve, EndStage, CompleteForeignKey, NextPlan,
                EndReferences, EmitPlan
  <2> QED
    BY <2>1 DEF FilesInv
<1> QED
  BY <1>1, <1>2, <1>3, <1>4 DEF Next, Step

\* The sorter reads in the file of a plan its table and those it refers to.
LEMMA ContentOfAPlan ==
    ASSUME NEW p \in ResourcePlan
    PROVE  /\ FileContent(RenderSchemaSQL(p)).creates = {p.table}
           /\ FileContent(RenderSchemaSQL(p)).refs = { fk.table : fk \in Range(p.foreignKeys) }
<1> DEFINE ts == TablesOf(Range(RenderSchemaSQL(p)))
           t == CreateTable(p)
<1>1. ts = {t}
  BY OneTablePerFile
<1>2. t.name = p.table /\ { fk.table : fk \in t.foreignKeys } = { fk.table : fk \in Range(p.foreignKeys) }
  <2> DEFINE key(fk) == [local |-> fk.local, table |-> fk.table, target |-> fk.target,
                         actions |-> fk.actions]
  <2>1. t.name = p.table /\ t.foreignKeys = { key(fk) : fk \in Range(p.foreignKeys) }
    BY DEF CreateTable
  <2>2. \A fk : key(fk).table = fk.table
    OBVIOUS
  <2> HIDE DEF t, key
  <2> QED
    BY <2>1, <2>2
<1>3. /\ FileContent(RenderSchemaSQL(p)).creates = { s.name : s \in ts }
      /\ FileContent(RenderSchemaSQL(p)).refs = UNION { { fk.table : fk \in s.foreignKeys } : s \in ts }
  BY DEF FileContent
<1> HIDE DEF ts, t
<1>4. { s.name : s \in ts } = {t.name}
  BY <1>1
<1>5. UNION { { fk.table : fk \in s.foreignKeys } : s \in ts } = { fk.table : fk \in t.foreignKeys }
  BY <1>1
<1> QED
  BY <1>2, <1>3, <1>4, <1>5

\* The files of directory d are those of the messages M, each of them once.
FilesOf(d, M) ==
    /\ M \in [DOMAIN Discovered(d) -> DOMAIN messages]
    /\ \A x \in DOMAIN M : /\ messages[M[x]].dir = d
                           /\ disk[Discovered(d)[x]] = RenderSchemaSQL(pending[M[x]])
    /\ \A x, y \in DOMAIN M : M[x] = M[y] => x = y
    /\ \A j \in DOMAIN messages : messages[j].dir = d => \E x \in DOMAIN M : M[x] = j

\* The files of a directory to apply are those of the messages of this run.
LEMMA FilesOfMessages ==
    ASSUME DistinctFiles, SettledFiles, GenInv, FilesInv, stage = "apply", NEW d \in dirs
    PROVE  \E M : FilesOf(d, M)
<1>1. RunInv /\ PlansInv /\ KeysInv /\ DiskInv /\ ApplyInv
  BY DEF GenInv
<1>2. /\ DOMAIN messages = DOMAIN pending
      /\ \A k \in DOMAIN pending : SameDeclaration(pending[k], messages[k])
  BY <1>1, PlansOfMessages
<1>3. \A k \in DOMAIN pending : PathOf(pending[k]) = PathOf(messages[k])
  BY <1>2 DEF PathOf, SameDeclaration
<1>4. PICK k0 \in DOMAIN pending : pending[k0].dir = d
  <2>1. d \in { p.dir : p \in Range(pending) }
    BY <1>1 DEF ApplyInv
  <2>2. PICK p \in Range(pending) : d = p.dir
    BY <2>1
  <2> QED
    BY <2>2 DEF Range
<1>5. messages \in Sources /\ messages[k0].dir = d /\ messages[k0] \in Range(messages)
  <2>1. messages \in Sources
    BY <1>1, <1>4, PlanIsMade
  <2> QED
    BY <1>2, <1>4, <2>1 DEF SameDeclaration, Range
<1> DEFINE paths == Discovered(d)
           Of(x, k) == PathOf(pending[k]) = paths[x]
<1>6. ASSUME NEW x \in DOMAIN paths
      PROVE  \E k \in DOMAIN messages : Of(x, k)
  <2>1. paths[x] \in DOMAIN disk /\ paths[x].dir = d
    BY <1>1, DiscoveredFiles
  <2>2. PICK ms \in Sources : FileMadeBy(paths[x], ms) /\ (MaxRuns <= 1 => ms = messages)
    BY <1>1, <2>1 DEF DiskInv
  <2>3. PICK i \in DOMAIN ms : \E p \in ResourcePlan : MadeOf(p, ms, i) /\ paths[x] = PathOf(p)
    BY <2>2 DEF FileMadeBy
  <2>4. paths[x] = PathOf(ms[i]) /\ ms[i] \in Range(ms)
    BY <2>3 DEF MadeOf, SameDeclaration, PathOf, Range
  <2>5. ms[i].dir = messages[k0].dir
    BY <1>5, <2>1, <2>4 DEF PathOf
  <2>6. messages \in IF MaxRuns > 1 THEN Sources ELSE {ms}
    BY <1>5, <2>2, MaxRunsAssumption
  <2>7. PICK r \in Range(messages) : PathOf(r) = PathOf(ms[i])
    BY <1>5, <2>4, <2>5, <2>6 DEF SettledFiles
  <2>8. PICK k \in DOMAIN messages : r = messages[k]
    BY <2>7 DEF Range
  <2> QED
    BY <1>2, <1>3, <2>4, <2>7, <2>8
<1> DEFINE M == [x \in DOMAIN paths |-> CHOOSE k \in DOMAIN messages : Of(x, k)]
<1> HIDE DEF Of
<1>7. M \in [DOMAIN paths -> DOMAIN messages] /\ \A x \in DOMAIN paths : Of(x, M[x])
  BY <1>6
<1> HIDE DEF M
<1>8. \A x \in DOMAIN paths : /\ messages[M[x]].dir = d
                              /\ disk[paths[x]] = RenderSchemaSQL(pending[M[x]])
  <2> TAKE x \in DOMAIN paths
  <2>1. M[x] \in DOMAIN pending /\ PathOf(pending[M[x]]) = paths[x]
    BY <1>2, <1>7 DEF Of
  <2>2. paths[x].dir = d
    BY <1>1, DiscoveredFiles
  <2>3. messages[M[x]].dir = d
    BY <1>2, <2>1, <2>2 DEF PathOf, SameDeclaration
  <2> QED
    BY <2>1, <2>3 DEF FilesInv
<1>9. \A x, y \in DOMAIN paths : M[x] = M[y] => x = y
  BY <1>1, <1>7, DiscoveredFiles DEF Of
<1>10. ASSUME NEW j \in DOMAIN messages, messages[j].dir = d
       PROVE  \E x \in DOMAIN paths : M[x] = j
  <2>1. PathOf(pending[j]) \in DOMAIN disk /\ PathOf(pending[j]).dir = d
    BY <1>2, <1>3, <1>10 DEF FilesInv, PathOf
  <2>2. PICK x \in DOMAIN paths : paths[x] = PathOf(pending[j])
    BY <1>1, <2>1, DiscoveredFiles
  <2>3. PathOf(messages[M[x]]) = PathOf(messages[j])
    BY <1>2, <1>3, <1>7, <2>2 DEF Of
  <2>4. M[x] \in DOMAIN messages
    BY <1>7
  <2> QED
    BY <1>5, <2>3, <2>4 DEF DistinctFiles
<1> QED
  BY <1>7, <1>8, <1>9, <1>10 DEF FilesOf

\* While a directory is applied, the sorter has its files and the database is made of
\* those applied so far, in the sorter's order.
SorterInv ==
    stage = "apply" /\ status # "idle" =>
        LET paths == Discovered(ThisDir) IN
        /\ files = [k \in DOMAIN paths |-> FileContent(disk[paths[k]])]
        /\ db = UNION { Range(disk[paths[out[l]]]) : l \in 1..(at - 1) }

LEMMA NextKeepsSorter ==
    ASSUME GenInv, SorterInv, [Next]_vars
    PROVE  SorterInv'
<1>1. /\ ApplyInv /\ at \in Nat \ {0}
  BY DEF GenInv, RunInv
<1>2. ASSUME UNCHANGED <<disk, dirs>>
      PROVE  Discovered(ThisDir)' = Discovered(ThisDir)
  BY <1>2 DEF Discovered, ThisDir
<1>3. \A P : UNION { P[l] : l \in 1..(1 - 1) } = {}
  OBVIOUS
<1>4. CASE SortDir
  <2> DEFINE paths == Discovered(ThisDir)
             fs == [k \in DOMAIN paths |-> FileContent(disk[paths[k]])]
  <2>1. /\ stage = "apply" /\ status = "idle" /\ files' = fs /\ db' = {}
        /\ UNCHANGED <<at, disk, dirs>>
    BY <1>4 DEF SortDir, Begin
  <2>2. at' = 1
    BY <1>1, <2>1 DEF ApplyInv
  <2>3. paths' = paths /\ files' = [k \in DOMAIN paths |-> FileContent(disk'[paths[k]])]
    BY <1>2, <2>1
  <2>4. db' = UNION { Range(disk'[paths'[out'[l]]]) : l \in 1..(at' - 1) }
    BY <2>1, <2>2
  <2> QED
    BY <2>3, <2>4 DEF SorterInv
<1>5. CASE SortStep
  <2>1. /\ UNCHANGED <<stage, at, disk, dirs, db>> /\ status = "sorting" /\ files' = files
    BY <1>5 DEF SortStep, runVars, Emit, Finish
  <2>2. stage = "apply" /\ at = 1
    BY <1>1, <2>1 DEF ApplyInv
  <2> DEFINE paths == Discovered(ThisDir)
  <2>3. paths' = paths
    BY <1>2, <2>1
  <2>4. /\ files' = [k \in DOMAIN paths |-> FileContent(disk[paths[k]])]
        /\ db' = UNION { Range(disk[paths[out[l]]]) : l \in 1..(1 - 1) }
    BY <2>1, <2>2 DEF SorterInv
  <2>5. db' = UNION { Range(disk'[paths'[out'[l]]]) : l \in 1..(at' - 1) }
    BY <2>1, <2>2, <2>4
  <2> QED
    BY <2>1, <2>3, <2>4, <2>5 DEF SorterInv
<1>6. CASE ApplyFile
  <2> DEFINE paths == Discovered(ThisDir)
             file == disk[paths[out[at]]]
             R(l) == Range(disk[paths[out[l]]])
  <2> SUFFICES ASSUME stage' = "apply" PROVE SorterInv'
    BY DEF SorterInv
  <2>1. /\ stage = "apply" /\ status = "sorted"
        /\ db' = db \cup R(at) /\ at' = at + 1
        /\ UNCHANGED <<disk, dirs, files, out>>
    BY <1>6 DEF ApplyFile, topoVars
  <2>2. paths' = paths
    BY <1>2, <2>1
  <2>3. /\ files = [k \in DOMAIN paths |-> FileContent(disk[paths[k]])]
        /\ db = UNION { R(l) : l \in 1..(at - 1) }
    BY <2>1 DEF SorterInv
  <2>4. db' = UNION { R(l) : l \in 1..at }
    <3>1. 1..at = (1..(at - 1)) \cup {at}
      BY <1>1
    <3> HIDE DEF R
    <3> QED
      BY <2>1, <2>3, <3>1
  <2>5. at' - 1 = at
    BY <1>1, <2>1
  <2>6. db' = UNION { Range(disk'[paths'[out'[l]]]) : l \in 1..(at' - 1) }
    BY <2>1, <2>2, <2>4, <2>5
  <2> QED
    BY <2>1, <2>2, <2>3, <2>6 DEF SorterInv
<1>7. ASSUME NEW ms \in Sources, Run(ms)
      PROVE  SorterInv'
  BY <1>7 DEF Run, SorterInv
<1>8. CASE \/ ResolveMessage \/ EndResolve \/ CompleteForeignKey \/ NextPlan \/ EndReferences
           \/ EmitPlan \/ EndEmit \/ CycleFound \/ NextDir
  <2>1. stage' # "apply" \/ status' = "idle"
    <3>1. stage = "emit" => status = "idle"
      BY <1>1 DEF ApplyInv
    <3> QED
      BY <1>8, <3>1
      DEF ResolveMessage, EndResolve, EndStage, CompleteForeignKey, NextPlan, EndReferences,
          EmitPlan, EndEmit, CycleFound, NextDir, topoVars
  <2> QED
    BY <2>1 DEF SorterInv
<1>9. CASE UNCHANGED vars
  <2>1. UNCHANGED <<stage, at, disk, dirs, db, status, files, out>>
    BY <1>9 DEF vars, runVars, topoVars
  <2>2. Discovered(ThisDir)' = Discovered(ThisDir)
    BY <1>2, <2>1
  <2> QED
    BY <2>1, <2>2 DEF SorterInv
<1> QED
  BY <1>4, <1>5, <1>6, <1>7, <1>8, <1>9 DEF Next, Step

\* The messages of one directory have tables of their own.
LEMMA OneTableOneMessage ==
    ASSUME DistinctNames, NEW ms \in Sources, NEW i \in DOMAIN ms, NEW j \in DOMAIN ms,
           ms[i].dir = ms[j].dir, ms[i].table = ms[j].table
    PROVE  i = j
<1>1. /\ ms[i].table \in TableNames(ms[i]) /\ ms[j].table \in TableNames(ms[j])
  BY DEF TableNames
<1>2. i # j => (IndexNames(ms, ms[i]) \cup TableNames(ms[i]))
                 \cap (IndexNames(ms, ms[j]) \cup TableNames(ms[j])) = {}
  BY DEF DistinctNames
<1> QED
  BY <1>1, <1>2

\* What the sorter has read in the files of messages M.
LEMMA SorterReads ==
    ASSUME GenInv, FilesInv, SorterInv, stage = "apply", status # "idle",
           NEW M, FilesOf(ThisDir, M)
    PROVE  /\ DOMAIN M = Indices(files)
           /\ \A x \in Indices(files) :
                 /\ M[x] \in DOMAIN messages
                 /\ files[x].creates = {messages[M[x]].table}
                 /\ \A t \in files[x].refs :
                       \E b \in DOMAIN messages[M[x]].foreignKeys : \E k \in DOMAIN messages :
                          /\ messages[k].fqn = messages[M[x]].foreignKeys[b].message
                          /\ messages[k].table = t
                 /\ \A b \in DOMAIN messages[M[x]].foreignKeys : \A k \in DOMAIN messages :
                       messages[k].fqn = messages[M[x]].foreignKeys[b].message
                          => messages[k].table \in files[x].refs
<1>1. RunInv /\ PlansInv /\ KeysInv /\ DiskInv /\ ApplyInv
  BY DEF GenInv
<1> DEFINE paths == Discovered(ThisDir)
<1>2. files = [k \in DOMAIN paths |-> FileContent(disk[paths[k]])]
  BY DEF SorterInv
<1>3. DOMAIN M = DOMAIN paths /\ DOMAIN paths = 1..Len(paths) /\ Len(files) = Len(paths)
  BY <1>1, DiscoveredFiles DEF FilesOf, ApplyInv
<1>4. DOMAIN M = Indices(files)
  BY <1>3 DEF Indices
<1>5. ASSUME NEW x \in DOMAIN M
      PROVE  /\ M[x] \in DOMAIN messages
             /\ files[x].creates = {messages[M[x]].table}
             /\ \A t \in files[x].refs :
                   \E b \in DOMAIN messages[M[x]].foreignKeys : \E k \in DOMAIN messages :
                      /\ messages[k].fqn = messages[M[x]].foreignKeys[b].message
                      /\ messages[k].table = t
             /\ \A b \in DOMAIN messages[M[x]].foreignKeys : \A k \in DOMAIN messages :
                   messages[k].fqn = messages[M[x]].foreignKeys[b].message
                      => messages[k].table \in files[x].refs
  <2> DEFINE i == M[x]
             p == pending[i]
             m == messages[i]
  <2>1. i \in DOMAIN messages /\ i \in DOMAIN pending /\ disk[paths[x]] = RenderSchemaSQL(p)
    BY <1>1, PlansOfMessages DEF FilesOf
  <2>2. messages \in Sources /\ MadeOf(p, messages, i)
    BY <1>1, <2>1, PlanIsMade
  <2>3. p \in ResourcePlan /\ p.table = m.table
    BY <2>2 DEF MadeOf, SameDeclaration
  <2>4. files[x] = FileContent(RenderSchemaSQL(p))
    BY <1>2, <1>3, <2>1
  <2>5. files[x].creates = {m.table} /\ files[x].refs = { fk.table : fk \in Range(p.foreignKeys) }
    BY <2>3, <2>4, ContentOfAPlan
  <2>6. DistinctMessages(messages) /\ DOMAIN p.foreignKeys = DOMAIN m.foreignKeys
    BY <1>1, <2>1, <2>2, RequestFacts, PlansOfMessages
  <2>7. ASSUME NEW b \in DOMAIN m.foreignKeys
        PROVE  \E k \in DOMAIN messages : /\ messages[k].fqn = m.foreignKeys[b].message
                                          /\ messages[k].table = p.foreignKeys[b].table
    <3>1. \E q \in Range(messages) : \E c \in TargetColumns(q, m.foreignKeys[b]) :
             q.fqn = m.foreignKeys[b].message /\ Scoped(m) = Scoped(q)
             /\ Says(p.foreignKeys[b], m, m.foreignKeys[b], q, c)
      BY <2>1, <2>2, <2>6, MadeKeys
    <3>2. PICK q \in Range(messages) : \E c \in TargetColumns(q, m.foreignKeys[b]) :
             q.fqn = m.foreignKeys[b].message /\ Scoped(m) = Scoped(q)
             /\ Says(p.foreignKeys[b], m, m.foreignKeys[b], q, c)
      BY <3>1
    <3> QED
      BY <3>2 DEF Says, Range
  <2> HIDE DEF i, p, m
  <2>8. ASSUME NEW t \in files[x].refs
        PROVE  \E b \in DOMAIN m.foreignKeys : \E k \in DOMAIN messages :
                  messages[k].fqn = m.foreignKeys[b].message /\ messages[k].table = t
    <3>1. PICK b \in DOMAIN p.foreignKeys : t = p.foreignKeys[b].table
      BY <2>5 DEF Range
    <3> QED
      BY <2>6, <2>7, <3>1
  <2>9. ASSUME NEW b \in DOMAIN m.foreignKeys, NEW k \in DOMAIN messages,
               messages[k].fqn = m.foreignKeys[b].message
        PROVE  messages[k].table \in files[x].refs
    <3>1. PICK l \in DOMAIN messages : /\ messages[l].fqn = m.foreignKeys[b].message
                                       /\ messages[l].table = p.foreignKeys[b].table
      BY <2>7
    <3>2. k = l
      BY <2>6, <2>9, <3>1 DEF DistinctMessages
    <3> QED
      BY <2>5, <2>6, <3>1, <3>2 DEF Range
  <2> QED
    BY <2>1, <2>5, <2>8, <2>9 DEF i, m
<1> QED
  BY <1>4, <1>5

\* The files of a directory are not on a cycle.
LEMMA NeverACycle ==
    ASSUME LocalReferences, AcyclicReferences, DistinctNames, DistinctFiles, SettledFiles,
           GenInv, FilesInv, SorterInv, stage = "apply"
    PROVE  status # "cycle"
<1> SUFFICES ASSUME status = "cycle" PROVE FALSE
  OBVIOUS
<1>1. RunInv /\ PlansInv /\ KeysInv /\ ApplyInv /\ TopoInv
  BY DEF GenInv
<1>2. ThisDir \in dirs
  BY <1>1, ThisDirIsLeft DEF ApplyInv
<1>3. PICK M : FilesOf(ThisDir, M)
  BY <1>2, FilesOfMessages
<1>4. /\ DOMAIN M = Indices(files)
      /\ \A x \in Indices(files) :
            /\ M[x] \in DOMAIN messages
            /\ files[x].creates = {messages[M[x]].table}
            /\ \A t \in files[x].refs :
                  \E b \in DOMAIN messages[M[x]].foreignKeys : \E k \in DOMAIN messages :
                     /\ messages[k].fqn = messages[M[x]].foreignKeys[b].message
                     /\ messages[k].table = t
  BY <1>3, SorterReads
<1>5. /\ Leftovers \subseteq Indices(files) /\ Leftovers # {}
      /\ \A i \in Leftovers : \E j \in Leftovers \ {i} :
            files[i].refs \cap files[j].creates # {}
  BY <1>1, LeftoversWait DEF CycleIsReal, Leftovers
<1>6. messages \in Sources
  <2>1. DOMAIN messages = DOMAIN pending
    BY <1>1, PlansOfMessages
  <2> QED
    BY <1>1, <1>4, <1>5, <2>1, PlanIsMade
<1> DEFINE S == { M[x] : x \in Leftovers }
<1>7. S \in SUBSET DOMAIN messages /\ S # {}
  BY <1>4, <1>5
<1> HIDE DEF S
<1>8. PICK i \in S : \A j \in S \ {i} : \A fk \in Range(messages[i].foreignKeys) :
                        fk.message # messages[j].fqn
  BY <1>6, <1>7 DEF AcyclicReferences
<1>9. PICK x \in Leftovers : i = M[x]
  BY <1>8 DEF S
<1>10. PICK y \in Leftovers \ {x} : files[x].refs \cap files[y].creates # {}
  BY <1>5
<1>11. PICK t \in files[x].refs : t \in files[y].creates
  BY <1>10
<1>12. PICK b \in DOMAIN messages[i].foreignKeys, k \in DOMAIN messages :
          messages[k].fqn = messages[i].foreignKeys[b].message /\ messages[k].table = t
  BY <1>4, <1>5, <1>9, <1>11
<1>13. /\ M[x] \in DOMAIN messages /\ M[y] \in DOMAIN messages /\ M[y] # M[x]
       /\ messages[M[x]].dir = ThisDir /\ messages[M[y]].dir = ThisDir
       /\ messages[M[y]].table = t
  BY <1>3, <1>4, <1>5, <1>10, <1>11 DEF FilesOf
<1>14. messages[k].dir = ThisDir
  <2>1. /\ messages[i] \in Range(messages) /\ messages[k] \in Range(messages)
        /\ messages[i].foreignKeys[b] \in Range(messages[i].foreignKeys)
    BY <1>9, <1>12, <1>13 DEF Range
  <2> QED
    BY <1>6, <1>9, <1>12, <1>13, <2>1 DEF LocalReferences
<1>15. k = M[y]
  BY <1>6, <1>12, <1>13, <1>14, OneTableOneMessage
<1>16. M[y] \in S \ {i} /\ messages[i].foreignKeys[b] \in Range(messages[i].foreignKeys)
  BY <1>9, <1>10, <1>12, <1>13 DEF S, Range
<1> QED
  BY <1>8, <1>12, <1>15, <1>16

\* PostgreSQL accepts the next file.
LEMMA NextFileAccepted ==
    ASSUME LocalReferences, SelfReferencesByKey, TenantScopedTargets, PartitionsInUniques,
           DistinctNames, DistinctFiles, SettledFiles,
           GenInv, ResolvedInv, FilesInv, SorterInv,
           stage = "apply", status = "sorted", at <= Len(out)
    PROVE  AcceptsFile(db, disk[Discovered(ThisDir)[out[at]]])
<1>1. RunInv /\ PlansInv /\ KeysInv /\ ApplyInv /\ TopoInv /\ at \in Nat \ {0}
  BY DEF GenInv, RunInv
<1>2. ThisDir \in dirs
  BY <1>1, ThisDirIsLeft DEF ApplyInv
<1>3. PICK M : FilesOf(ThisDir, M)
  BY <1>2, FilesOfMessages
<1>4. /\ DOMAIN M = Indices(files)
      /\ \A x \in Indices(files) :
            /\ M[x] \in DOMAIN messages
            /\ files[x].creates = {messages[M[x]].table}
            /\ \A b \in DOMAIN messages[M[x]].foreignKeys : \A k \in DOMAIN messages :
                  messages[k].fqn = messages[M[x]].foreignKeys[b].message
                     => messages[k].table \in files[x].refs
  BY <1>3, SorterReads
<1>5. /\ out \in Seq(Indices(files)) /\ Len(out) \in Nat /\ DOMAIN out = 1..Len(out)
      /\ \A l \in DOMAIN out : out[l] \in Indices(files)
  BY <1>1, LenProperties, ElementOfSeq DEF TopoInv, TopoTypeOK
<1>6. at \in DOMAIN out /\ \A l \in 1..(at - 1) : l \in DOMAIN out /\ l # at
  BY <1>1, <1>5
<1>7. CreatedFirst
  BY <1>1, FilesComeAfterOwners
<1> DEFINE i == M[out[at]]
           D == { M[out[l]] : l \in 1..(at - 1) }
<1>8. i \in DOMAIN messages /\ DOMAIN messages = DOMAIN pending
  BY <1>1, <1>4, <1>5, <1>6, PlansOfMessages
<1>9. messages \in Sources /\ \A j \in DOMAIN messages : MadeOf(pending[j], messages, j)
  BY <1>1, <1>8, PlanIsMade
<1>10. \A x \in DOMAIN M : /\ messages[M[x]].dir = ThisDir
                           /\ disk[Discovered(ThisDir)[x]] = RenderSchemaSQL(pending[M[x]])
  BY <1>3 DEF FilesOf
<1>11. D \in SUBSET (DOMAIN messages \ {i})
  <2> SUFFICES ASSUME NEW l \in 1..(at - 1) PROVE M[out[l]] \in DOMAIN messages \ {i}
    OBVIOUS
  <2>1. l \in DOMAIN out /\ out[l] # out[at]
    BY <1>6, <1>7 DEF CreatedFirst
  <2>2. out[l] \in DOMAIN M /\ out[at] \in DOMAIN M
    BY <1>4, <1>5, <1>6, <2>1
  <2>3. M[out[l]] # i
    BY <1>3, <2>1, <2>2 DEF FilesOf
  <2> QED
    BY <1>4, <2>2, <2>3
<1>12. \A j \in D : messages[j].dir = messages[i].dir
  BY <1>4, <1>5, <1>6, <1>10
<1>13. ASSUME NEW j \in DOMAIN messages \ {i}, NEW b \in DOMAIN messages[i].foreignKeys,
              messages[i].foreignKeys[b].message = messages[j].fqn
       PROVE  j \in D
  <2>1. messages[j].dir = ThisDir
    <3>1. /\ messages[i] \in Range(messages) /\ messages[j] \in Range(messages)
          /\ messages[i].foreignKeys[b] \in Range(messages[i].foreignKeys)
      BY <1>8 DEF Range
    <3>2. messages[i].dir = ThisDir
      BY <1>4, <1>5, <1>6, <1>10
    <3> QED
      BY <1>9, <1>13, <3>1, <3>2 DEF LocalReferences
  <2>2. PICK y \in DOMAIN M : M[y] = j
    BY <1>3, <2>1 DEF FilesOf
  <2>3. messages[j].table \in files[out[at]].refs /\ messages[j].table \in files[y].creates
    BY <1>4, <1>5, <1>6, <1>13, <2>2
  <2>4. PICK l \in 1..at : messages[j].table \in files[out[l]].creates
    BY <1>4, <1>6, <1>7, <2>2, <2>3 DEF CreatedFirst
  <2>5. l \in DOMAIN out /\ out[l] \in DOMAIN M
    BY <1>1, <1>4, <1>5, <1>6, <2>4
  <2>6. M[out[l]] \in DOMAIN messages /\ messages[M[out[l]]].table = messages[j].table
    BY <1>4, <2>4, <2>5
  <2>7. M[out[l]] = j
    BY <1>9, <1>10, <2>1, <2>5, <2>6, OneTableOneMessage
  <2>8. l \in 1..(at - 1)
    <3>1. l # at
      BY <1>13, <2>7
    <3> QED
      BY <1>1, <2>4, <3>1
  <2> QED
    BY <2>7, <2>8
<1>14. db = UNION { Range(RenderSchemaSQL(pending[j])) : j \in D }
  <2> DEFINE R(l) == Range(disk[Discovered(ThisDir)[out[l]]])
             T(j) == Range(RenderSchemaSQL(pending[j]))
  <2>1. db = UNION { R(l) : l \in 1..(at - 1) }
    BY DEF SorterInv
  <2>2. \A l \in 1..(at - 1) : R(l) = T(M[out[l]])
    BY <1>4, <1>5, <1>6, <1>10
  <2> HIDE DEF R, T
  <2>3. db = UNION { T(j) : j \in D }
    BY <2>1, <2>2
  <2> QED
    BY <2>3 DEF T
<1>15. \A b \in DOMAIN messages[i].foreignKeys :
          Resolvable(messages, messages[i], messages[i].foreignKeys[b])
  <2> TAKE b \in DOMAIN messages[i].foreignKeys
  <2>1. PassedKeys = AllKeys
    BY DEF PassedKeys
  <2>2. i \in Nat /\ b \in Nat
    <3>1. DOMAIN messages = 1..Len(messages)
          /\ messages[i].foreignKeys \in Seq(ForeignKeyPlan)
      BY <1>8, <1>9, RequestFacts
    <3> QED
      BY <1>8, <3>1, LenProperties
  <2>3. <<i, b>> \in PassedKeys
    BY <2>1, <2>2 DEF AllKeys
  <2> QED
    BY <1>8, <2>3 DEF ResolvedInv
<1>16. disk[Discovered(ThisDir)[out[at]]] = RenderSchemaSQL(pending[i])
  BY <1>4, <1>5, <1>6, <1>10
<1> HIDE DEF i, D
<1>17. \A j \in DOMAIN messages \ {i} : \A b \in DOMAIN messages[i].foreignKeys :
          messages[i].foreignKeys[b].message = messages[j].fqn => j \in D
  BY <1>13
<1>18. AcceptsFile(db, RenderSchemaSQL(pending[i]))
  BY <1>8, <1>9, <1>11, <1>12, <1>14, <1>15, <1>17, FileAccepted
<1> QED
  BY <1>16, <1>18

\* What keeps a run from failing in a database.
CleanInv == WrittenInv /\ ResolvedInv /\ FilesInv /\ SorterInv /\ AppliesCleanly

\* For every set of sources in which messages refer to messages of their own directory, in
\* no cycle, to themselves by their key and to none that is scoped to users, in which
\* partitioned tables are unique only where they are partitioned, names differ, and every
\* file is that of one message in every run: a run that has emitted its files never
\* fails (jet_runner.go, runFromDDL; resolve.go, validatePlan: "caught at generation,
\* not at migration apply").
THEOREM DatabaseAccepts ==
    ASSUME LocalReferences, AcyclicReferences, SelfReferencesByKey, TenantScopedTargets,
           PartitionsInUniques, DistinctNames, DistinctFiles, SettledFiles
    PROVE  Spec => []AppliesCleanly
<1>1. Init => CleanInv
  <2>1. Init => stage = "idle" /\ errors = {}
    BY DEF Init
  <2> QED
    BY <2>1 DEF CleanInv, WrittenInv, ResolvedInv, FilesInv, SorterInv, AppliesCleanly
<1>2. GenInv /\ CleanInv /\ [Next]_vars => CleanInv'
  <2> SUFFICES ASSUME GenInv, CleanInv, [Next]_vars PROVE CleanInv'
    OBVIOUS
  <2>1. WrittenInv' /\ ResolvedInv' /\ FilesInv' /\ SorterInv'
    BY NextKeepsWritten, NextKeepsResolved, NextKeepsFiles, NextKeepsSorter DEF CleanInv
  <2>2. ApplyInv
    BY DEF GenInv
  <2>3. AppliesCleanly'
    <3> SUFFICES ASSUME stage' = "failed" PROVE dirs' = {}
      BY DEF AppliesCleanly
    <3>1. CASE EndResolve \/ EndReferences
      BY <2>2, <3>1 DEF EndResolve, EndReferences, ApplyInv
    <3>2. CASE EndEmit
      BY <3>2 DEF EndEmit, EndStage
    <3>3. CASE CycleFound
      BY <3>3, NeverACycle DEF CycleFound, CleanInv
    <3>4. CASE ApplyFile
      <4>1. AcceptsFile(db, disk[Discovered(ThisDir)[out[at]]])
        BY <3>4, NextFileAccepted DEF ApplyFile, CleanInv
      <4> QED
        BY <3>4, <4>1 DEF ApplyFile
    <3>5. CASE SortStep \/ UNCHANGED vars
      BY <3>5 DEF SortStep, vars, runVars, CleanInv, AppliesCleanly
    <3>6. ASSUME NEW ms \in Sources, Run(ms)
          PROVE  dirs' = {}
      BY <3>6 DEF Run
    <3>7. CASE ResolveMessage \/ CompleteForeignKey \/ NextPlan \/ EmitPlan \/ SortDir \/ NextDir
      <4>1. stage' # "failed"
        BY <3>7 DEF ResolveMessage, CompleteForeignKey, NextPlan, EmitPlan, SortDir, NextDir
      <4> QED
        BY <4>1
    <3> QED
      BY <3>1, <3>2, <3>3, <3>4, <3>5, <3>6, <3>7 DEF Next, Step
  <2> QED
    BY <2>1, <2>3 DEF CleanInv
<1>3. CleanInv => AppliesCleanly
  BY DEF CleanInv
<1> QED
  BY <1>1, <1>2, <1>3, GenInvariant, PTL DEF Spec
===============================================================================
