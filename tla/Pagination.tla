------------------------------ MODULE Pagination ------------------------------
(***************************************************************************)
(* A client pages through a list while other clients write to the table     *)
(* (pkg/aip/jet/execute.go).                                                *)
(*                                                                         *)
(* The servers are the deployed instances of the list schemas: two servers  *)
(* with one resource type are two versions of one schema, serving side by   *)
(* side during a rollout.  Every request runs one SQL statement on one       *)
(* snapshot, so a page is one step; between two pages anybody may write.     *)
(***************************************************************************)
EXTENDS ListSchema, FiniteSets

CONSTANTS
    Servers, Schema,       \* Schema[s]: the list schema server s runs
    Columns, Values,       \* a row gives each column one of Values
    KeyColumn,             \* the column with the table's unique key
    Filters,               \* the filters a client may ask for
    Matches(_, _),         \* the WHERE condition the caller makes of a filter
    OrderBys, PageSizes,   \* the order_by and page_size a client may ask for
    InitialTables,         \* the tables the model starts from
    MaxWrites, MaxTime     \* bounds: rows written, clock

ResourceTypes == { Schema[s].resourceType : s \in Servers }
Row == [Columns -> Values]

\* The primary key: no two rows of a table share it.
UniqueKeys(rows) == \A r, q \in rows : r[KeyColumn] = q[KeyColumn] => r = q

ASSUME PaginationAssumption ==
    /\ Servers # {}
    /\ \A s \in Servers : /\ Validate(Schema[s])
                          /\ Schema[s].defaultPageSize \in Int
                          /\ Schema[s].maxPageSize \in Int
                          /\ \A path \in DOMAIN Schema[s].fields :
                                Schema[s].fields[path].kind \in STRING
    /\ \A f \in Filters : f = <<>> \/ f = << f[1] >>
    /\ KeyColumn \in Columns
    /\ Values \subseteq Int
    /\ PageSizes \subseteq Int
    /\ MaxWrites \in Nat /\ MaxTime \in Nat
    /\ \A ts \in InitialTables :
          /\ ts \in [ResourceTypes -> SUBSET Row]
          /\ \A rt \in ResourceTypes : IsFiniteSet(ts[rt]) /\ UniqueKeys(ts[rt])

VARIABLES
    tables,    \* the rows stored, by resource type
    now,       \* the clock of the servers
    writes,    \* how many rows were written
    phase,     \* of the client: idle, listing, done or failed
    list,      \* what it lists: [rt, filter, orderBy]
    order,     \* the order its first page came in
    token,     \* the page_token it sends next
    seen,      \* history: the rows it was given, in the order it was given them
    owed,      \* history: the rows not given yet that matched all along
    issued     \* history: the tokens it was given, each with what was then seen

vars == <<tables, now, writes, phase, list, order, token, seen, owed, issued>>
client == <<phase, list, order, token, seen, owed, issued>>

Elements(seq) == { seq[i] : i \in DOMAIN seq }

Matching(rt, filter) == { r \in tables[rt] : filter = <<>> \/ Matches(filter[1], r) }

OrderFields == [path : Columns, dir : {Asc, Desc}]

\* What a schema must have for its lists to be stable: fields that are columns
\* and a tie-breaker with the table's unique key (WithTieBreaker).
KeyedSchemas ==
    /\ \A s \in Servers : /\ DOMAIN Schema[s].fields \subseteq Columns
                          /\ Schema[s].defaultOrder \in Seq(OrderFields)
                          /\ Schema[s].tieBreaker \in Seq(OrderFields)
                          /\ KeyColumn \in PathsOf(Schema[s].tieBreaker)
    /\ \A spec \in OrderBys \cup {<<>>} : spec \in Seq(Seq(STRING))

\* What keeps a list going from page to page: the servers of a resource run one
\* version of its schema, whose maximal page size leaves room for the extra row
\* (WithMaxPageSize), whose columns go-jet can compare (validateOrderable refuses
\* the others) and whose values all have a cursor encoding.
SteadySchemas ==
    /\ \A s, t \in Servers :
          Schema[s].resourceType = Schema[t].resourceType => Schema[s] = Schema[t]
    /\ \A s \in Servers :
          /\ Schema[s].maxPageSize < MaxInt
          /\ \A path \in DOMAIN Schema[s].fields :
                /\ Schema[s].fields[path].kind # "bool"
                /\ \A v \in Values : Encodable(Schema[s].fields[path].kind, v)

---------------------------------------------------------------------------
(* ExecuteWithCondition *)

\* A page holds at least one row, so the int32 sum wraps only at the top.
Limit(size) == IF size = MaxInt THEN -MaxInt - 1 ELSE size + 1

\* Go-jet has no < and > on boolean columns; only the OR-chain asks for them.
Comparable(schema, ord) ==
    IsUniformDirection(ord)
    \/ \A i \in DOMAIN ord : schema.fields[ord[i].path].kind # "bool"

\* The rows the WHERE clause of a plan keeps: filter AND cursor.
Qualifies(plan, row) == KeysetCondition(plan.order, plan.vals, Key(plan.order, row))

\* What SELECT ... ORDER BY ... LIMIT may return: the first rows in the order
\* asked for; rows the order does not tell apart come in any order.
QueryResults(ord, rows, limit) ==
    LET count == IF Cardinality(rows) < limit THEN Cardinality(rows) ELSE limit
        before(r, q) == SortsBefore(ord, Key(ord, r), Key(ord, q))
    IN  { q \in [1..count -> rows] :
            /\ \A i, j \in 1..count : i < j => q[i] # q[j] /\ ~before(q[j], q[i])
            /\ \A r \in rows \ Elements(q), i \in 1..count : ~before(r, q[i]) }

\* Mutant: the cursor is the extra row, the first of the next page.
NextPageTokenOfExtraRow(schema, plan, req, rows) ==
    IF Len(rows) <= plan.size
    THEN [err |-> OK, str |-> <<>>]
    ELSE EncodeToken(schema, ExtractCursorValues(plan.order, rows[Len(rows)]),
                     plan.order, req.filter, now)

\* Mutant: an empty page keeps the cursor it was asked with.
NextPageTokenOfEmptyPage(schema, plan, req, rows) ==
    IF rows = <<>> /\ plan.vals # <<>>
    THEN EncodeToken(schema, plan.vals, plan.order, req.filter, now)
    ELSE IF Len(rows) <= plan.size
    THEN [err |-> OK, str |-> <<>>]
    ELSE EncodeToken(schema, ExtractCursorValues(plan.order, rows[plan.size]),
                     plan.order, req.filter, now)

\* The cursor is the last row of a full page that is not the last one.
NextPageToken(schema, plan, req, rows) ==
    IF Len(rows) <= plan.size
    THEN [err |-> OK, str |-> <<>>]
    ELSE EncodeToken(schema, ExtractCursorValues(plan.order, rows[plan.size]),
                     plan.order, req.filter, now)

Responses(schema, req) ==
    LET plan == BuildPlan(schema, req, now)
        failed(err) == { [err |-> err, rows |-> <<>>, next |-> <<>>] }
        rows == { r \in Matching(schema.resourceType, req.filter) : Qualifies(plan, r) }
        page(q) == IF Len(q) > plan.size THEN SubSeq(q, 1, plan.size) ELSE q
        response(q) ==
            LET next == NextPageToken(schema, plan, req, q) IN
            IF next.err # OK
            THEN [err |-> next.err, rows |-> <<>>, next |-> <<>>]
            ELSE [err |-> OK, rows |-> page(q), next |-> next.str]
    IN  IF plan.err # OK THEN failed(plan.err)
        ELSE IF plan.vals # <<>> /\ ~Comparable(schema, plan.order)
             THEN failed(ErrInvalidPageToken)
        ELSE IF Limit(plan.size) < 0 THEN failed("query execution failed")
        ELSE { response(q) : q \in QueryResults(plan.order, rows, Limit(plan.size)) }

---------------------------------------------------------------------------
Init ==
    /\ tables \in InitialTables
    /\ now = 0 /\ writes = 0
    /\ phase = "idle"
    /\ list = [rt |-> CHOOSE rt \in ResourceTypes : TRUE, filter |-> <<>>, orderBy |-> <<>>]
    /\ order = <<>> /\ token = <<>> /\ seen = <<>> /\ owed = {} /\ issued = {}

\* The client makes up its mind what to list.
StartList(rt, filter, orderBy) ==
    /\ phase = "idle"
    /\ phase' = "listing"
    /\ list' = [rt |-> rt, filter |-> filter, orderBy |-> orderBy]
    /\ owed' = Matching(rt, filter)
    /\ UNCHANGED <<tables, now, writes, order, token, seen, issued>>

\* It asks server s for the next page; the size may differ from page to page.
NextPage(s, size) ==
    LET req == [size |-> size, filter |-> list.filter, orderBy |-> list.orderBy,
                token |-> token]
    IN  /\ phase = "listing"
        /\ Schema[s].resourceType = list.rt
        /\ \E resp \in Responses(Schema[s], req) :
              IF resp.err # OK
              THEN phase' = "failed" /\ UNCHANGED <<order, token, seen, owed, issued>>
              ELSE /\ phase' = IF resp.next = <<>> THEN "done" ELSE "listing"
                   /\ order' = BuildPlan(Schema[s], req, now).order
                   /\ token' = resp.next
                   /\ seen' = seen \o resp.rows
                   /\ owed' = owed \ Elements(resp.rows)
                   /\ issued' = issued \cup
                        { [tok |-> t, shown |-> Elements(seen'), owed |-> owed', list |-> list] :
                            t \in Elements(resp.next) }
        /\ UNCHANGED <<tables, now, writes, list>>

---------------------------------------------------------------------------
(* Everybody else: other writers of the tables, and time. *)

Write(rt, rows) ==
    /\ writes < MaxWrites
    /\ UniqueKeys(rows)
    /\ tables' = [tables EXCEPT ![rt] = rows]
    /\ writes' = writes + 1
    /\ owed' = IF rt = list.rt THEN owed \cap rows ELSE owed
    /\ UNCHANGED <<now, phase, list, order, token, seen, issued>>

Insert(rt, row) == row \notin tables[rt] /\ Write(rt, tables[rt] \cup {row})

Delete(rt, row) == row \in tables[rt] /\ Write(rt, tables[rt] \ {row})

\* The key is the row's identity and stays.
Update(rt, row, new) ==
    /\ row \in tables[rt] /\ new # row
    /\ new[KeyColumn] = row[KeyColumn]
    /\ Write(rt, (tables[rt] \ {row}) \cup {new})

Tick ==
    /\ now < MaxTime
    /\ now' = now + 1
    /\ UNCHANGED <<tables, writes, client>>

AskNextPage == \E s \in Servers, size \in PageSizes : NextPage(s, size)

Next ==
    \/ \E rt \in ResourceTypes, filter \in Filters, orderBy \in OrderBys :
          StartList(rt, filter, orderBy)
    \/ AskNextPage
    \/ \E rt \in ResourceTypes, row \in Row : Insert(rt, row) \/ Delete(rt, row)
    \/ \E rt \in ResourceTypes, row, new \in Row : Update(rt, row, new)
    \/ Tick

Spec == Init /\ [][Next]_vars

\* Some server's answer brings the client further.
Advances ==
    /\ phase = "listing"
    /\ \E s \in Servers, size \in PageSizes :
          /\ Schema[s].resourceType = list.rt
          /\ \E resp \in Responses(Schema[s], [size |-> size, filter |-> list.filter,
                                               orderBy |-> list.orderBy, token |-> token]) :
                resp.err # OK \/ resp.next = <<>> \/ resp.next # token \/ resp.rows # <<>>

\* The only fairness: a client in the middle of a list asks for the next page.
\* This is WF_progress(AskNextPage), whose ENABLED condition is Advances.
progress == <<phase, token, seen>>
FairSpec == Spec /\ ([]<>~Advances \/ []<><<AskNextPage>>_progress)

---------------------------------------------------------------------------
(* Properties *)

TokenType == [ct : 0..MaxTime, rt : ResourceTypes,
              fh : { hashFilter(f) : f \in Filters },
              cv : Seq([kind : STRING, text : Values]), of : Seq(OrderFields)]
IsToken(str) == str = <<>> \/ (Len(str) = 1 /\ str[1] \in TokenType)

\* No server issues the string that is not a token.
ASSUME GarbledAssumption == Garbled \notin TokenType

\* Every variable keeps the shape its description gives it.
TypeOK ==
    /\ tables \in [ResourceTypes -> SUBSET Row]
    /\ \A rt \in ResourceTypes : UniqueKeys(tables[rt])
    /\ now \in 0..MaxTime /\ writes \in 0..MaxWrites
    /\ phase \in {"idle", "listing", "done", "failed"}
    /\ list \in [rt : ResourceTypes, filter : Filters \cup {<<>>}, orderBy : OrderBys \cup {<<>>}]
    /\ order \in Seq(OrderFields)
    /\ IsToken(token)
    /\ seen \in Seq(Row)
    /\ owed \subseteq Row
    /\ \A e \in issued : IsToken(<<e.tok>>) /\ e.shown \subseteq Row /\ e.owed \subseteq Row

\* Over all its pages a list hands out rows in strictly increasing order of the
\* keys they had when they were read, so never the same row twice, whatever is
\* written between two pages and however the page size changes
\* (buildKeysetCondition, buildNextPageToken).
StrictlyOrdered ==
    \A i, j \in 1..Len(seen) :
        i < j => SortsBefore(order, Key(order, seen[i]), Key(order, seen[j]))

\* A list that ended without an error has handed out every row that matched its
\* filter, unchanged, from the first page to the last.
NothingSkipped == phase = "done" => owed = {}

LastSeen == seen[Len(seen)]

\* The inductive invariant behind the two: the token, if any, is the cursor of
\* the last row seen, and every row still owed sorts after it.
TokenAtLast ==
    /\ seen # <<>>
    /\ token = <<token[1]>>
    /\ token[1].of = order
    /\ KeyColumn \in PathsOf(order)
    /\ \A i \in DOMAIN order : token[1].cv[i].text = LastSeen[order[i].path]
    /\ \A r \in owed : SortsBefore(order, Key(order, LastSeen), Key(order, r))

ListInv ==
    /\ \A rt \in ResourceTypes :
          tables[rt] \subseteq Row /\ IsFiniteSet(tables[rt]) /\ UniqueKeys(tables[rt])
    /\ tables = [rt \in ResourceTypes |-> tables[rt]]
    /\ list.rt \in ResourceTypes /\ list.orderBy \in OrderBys \cup {<<>>}
    /\ order \in Seq(OrderFields)
    /\ seen \in Seq(Row)
    /\ owed \subseteq Matching(list.rt, list.filter)
    /\ phase = "idle" => seen = <<>> /\ token = <<>>
    /\ phase = "listing" => token # <<>> \/ seen = <<>>
    /\ token # <<>> => TokenAtLast
    /\ StrictlyOrdered
    /\ NothingSkipped

\* Whichever server and with whatever filter and order a token is presented, at
\* any later time: if the request is not refused, it goes on in the list the
\* token came from, none of the rows then shown comes back and each one then
\* owed is still ahead (ValidateToken, decodeCursorValues).
TokenResumes ==
    \A e \in issued, s \in Servers, f \in Filters, o \in OrderBys :
        LET plan == BuildPlan(Schema[s],
                      [size |-> 0, filter |-> f, orderBy |-> o, token |-> <<e.tok>>], now)
        IN  plan.err = OK =>
              /\ Schema[s].resourceType = e.list.rt
              /\ f = e.list.filter
              /\ now <= e.tok.ct + TokenMaxAge
              /\ \A r \in e.shown : ~Qualifies(plan, r)
              /\ \A r \in e.owed : Qualifies(plan, r)

\* A token never leads back to a row already shown: no list silently starts
\* over (codec.go's reason to refuse a NaN cursor).
NeverLoopsBack ==
    \A e \in issued, s \in Servers :
        LET plan == BuildPlan(Schema[s], [size |-> 0, filter |-> e.list.filter,
                        orderBy |-> e.list.orderBy, token |-> <<e.tok>>], now)
        IN  plan.err = OK => \A r \in e.shown : ~Qualifies(plan, r)

\* Once the first page was served, only the age of the token makes a later page
\* fail: the tokens a server issues are ones it accepts (BuildPlan,
\* buildKeysetCondition, EncodeToken).
OnlyExpiryStopsAList ==
    [][ (phase = "listing" /\ phase' = "failed" /\ token # <<>>)
            => now > token[1].ct + TokenMaxAge ]_vars

\* A list whose client keeps asking comes to an end.
ListsEnd == phase = "listing" ~> phase \in {"done", "failed"}

\* Paging by keyset keeps the promise of a list: the rows given are those of
\* `seen` (ExecuteWithCondition called page after page).
Promise == INSTANCE ListPromise WITH given <- seen
KeepsPromise == Promise!Spec
===============================================================================
