------------------------------ MODULE TokenProofs ------------------------------
(***************************************************************************)
(* What a page_token is worth, for every value of the constants: paging by  *)
(* tokens implements ListPromise, a token presented again goes on exactly    *)
(* where its list stopped, and among servers of one schema version nothing   *)
(* but the age of a token stops a list.                                      *)
(***************************************************************************)
EXTENDS PaginationProofs

\* A page is either refused or gives rows of the table and, if another page may
\* follow, a token made of the last of those rows.
LEMMA AnswerOfNextPage ==
    ASSUME KeyedSchemas, ListInv,
           NEW s \in Servers, NEW size \in PageSizes, NextPage(s, size)
    PROVE  /\ phase = "listing" /\ Schema[s].resourceType = list.rt
           /\ UNCHANGED <<tables, now, writes, list>>
           /\ \/ phase' = "failed" /\ UNCHANGED <<order, token, seen, owed, issued>>
              \/ /\ phase' = IF token' = <<>> THEN "done" ELSE "listing"
                 /\ EffectiveOrderBy(Schema[s], list.orderBy).err = OK
                 /\ order' = EffectiveOrderBy(Schema[s], list.orderBy).fields
                 /\ Keyed(order')
                 /\ \E rows \in Seq(Row) :
                       seen' = seen \o rows /\ owed' = owed \ Elements(rows)
                 /\ issued' = issued \cup
                       { [tok |-> t, shown |-> Elements(seen'), owed |-> owed', list |-> list] :
                            t \in Elements(token') }
                 /\ token' # <<>> =>
                       /\ token' = <<token'[1]>>
                       /\ token'[1].ct = now
                       /\ token'[1].rt = list.rt
                       /\ token'[1].fh = hashFilter(list.filter)
                       /\ token'[1].of = order'
                       /\ token'[1].cv = [i \in DOMAIN order' |-> token'[1].cv[i]]
                       /\ \A i \in DOMAIN order' : \E v :
                             token'[1].cv[i]
                               = Encode(Schema[s].fields[order'[i].path].kind, v)
                       /\ token'[1] = [ct |-> now, rt |-> list.rt,
                                       fh |-> hashFilter(list.filter),
                                       cv |-> token'[1].cv, of |-> order']
<1> DEFINE req == [size |-> size, filter |-> list.filter, orderBy |-> list.orderBy,
                   token |-> token]
           plan == BuildPlan(Schema[s], req, now)
<1>1. PICK resp \in Responses(Schema[s], req) :
         IF resp.err # OK
         THEN phase' = "failed" /\ UNCHANGED <<order, token, seen, owed, issued>>
         ELSE /\ phase' = IF resp.next = <<>> THEN "done" ELSE "listing"
              /\ order' = plan.order
              /\ token' = resp.next
              /\ seen' = seen \o resp.rows
              /\ owed' = owed \ Elements(resp.rows)
              /\ issued' = issued \cup
                   { [tok |-> t, shown |-> Elements(seen'), owed |-> owed', list |-> list] :
                       t \in Elements(resp.next) }
  BY DEF NextPage
<1>2. /\ phase = "listing" /\ Schema[s].resourceType = list.rt
      /\ UNCHANGED <<tables, now, writes, list>>
  BY DEF NextPage
<1>3. CASE resp.err # OK
  BY <1>1, <1>2, <1>3
<1>4. CASE resp.err = OK
  <2>1. /\ req.orderBy \in OrderBys \cup {<<>>} /\ req.size \in Int
        /\ req.filter = list.filter /\ req.orderBy = list.orderBy
    BY PaginationAssumption DEF ListInv
  <2> HIDE DEF req
  <2>2. /\ plan.err = OK
        /\ \E q \in QueryResults(plan.order, Asked(Schema[s], req), Limit(plan.size)) :
              LET next == NextPageToken(Schema[s], plan, req, q) IN
              next.err = OK /\ resp.next = next.str
    BY <1>4, AcceptedResponse
  <2>3. /\ EffectiveOrderBy(Schema[s], list.orderBy).err = OK
        /\ plan.order = EffectiveOrderBy(Schema[s], list.orderBy).fields
    BY <2>1, <2>2 DEF BuildPlan, OK, ErrInvalidOrderBy, ErrInvalidPageToken,
                      ErrFilterMismatch
  <2>4. Keyed(plan.order)
    BY <2>1, <2>2, PlanOfAcceptedRequest
  <2>5. resp.rows \in Seq(Row)
    <3> DEFINE rows == Asked(Schema[s], req)
    <3>1. rows \subseteq tables[list.rt]
      BY <1>2, <2>1 DEF Asked, Matching
    <3>2. /\ tables[list.rt] \subseteq Row /\ IsFiniteSet(tables[list.rt])
          /\ UniqueKeys(tables[list.rt])
      BY DEF ListInv
    <3> HIDE DEF rows
    <3>3. rows \subseteq Row /\ IsFiniteSet(rows) /\ UniqueKeys(rows)
      BY <3>1, <3>2, FS_Subset DEF UniqueKeys
    <3>4. resp.rows \in Seq(rows)
      BY <1>4, <2>1, <3>3, PageOfAcceptedRequest DEF rows
    <3> QED
      BY <3>3, <3>4
  <2>6. ASSUME resp.next # <<>>
        PROVE  \E cv : /\ resp.next = << [ct |-> now, rt |-> list.rt,
                                          fh |-> hashFilter(list.filter),
                                          cv |-> cv, of |-> plan.order] >>
                       /\ cv = [i \in DOMAIN plan.order |-> cv[i]]
                       /\ \A i \in DOMAIN plan.order : \E v :
                             cv[i] = Encode(Schema[s].fields[plan.order[i].path].kind, v)
    <3>1. PICK q : /\ NextPageToken(Schema[s], plan, req, q).err = OK
                   /\ resp.next = NextPageToken(Schema[s], plan, req, q).str
      BY <2>2
    <3> DEFINE vals == ExtractCursorValues(plan.order, q[plan.size])
               cv == [i \in DOMAIN plan.order |->
                        Encode(Schema[s].fields[plan.order[i].path].kind, vals[i])]
    <3> HIDE DEF plan
    <3>2. /\ EncodeToken(Schema[s], vals, plan.order, req.filter, now).err = OK
          /\ resp.next = EncodeToken(Schema[s], vals, plan.order, req.filter, now).str
      BY <3>1, <2>6 DEF NextPageToken
    <3>3. resp.next = << [ct |-> now, rt |-> list.rt, fh |-> hashFilter(list.filter),
                          cv |-> cv, of |-> plan.order] >>
      BY <1>2, <2>1, <3>2 DEF EncodeToken, OK
    <3>4. /\ cv = [i \in DOMAIN plan.order |-> cv[i]]
          /\ \A i \in DOMAIN plan.order : \E v :
                cv[i] = Encode(Schema[s].fields[plan.order[i].path].kind, v)
      OBVIOUS
    <3> HIDE DEF cv
    <3> QED
      BY <3>3, <3>4
  <2> HIDE DEF plan
  <2>7. ASSUME token' # <<>>
        PROVE  /\ token' = <<token'[1]>>
               /\ token'[1].ct = now
               /\ token'[1].rt = list.rt
               /\ token'[1].fh = hashFilter(list.filter)
               /\ token'[1].of = order'
               /\ token'[1].cv = [i \in DOMAIN order' |-> token'[1].cv[i]]
               /\ \A i \in DOMAIN order' : \E v :
                     token'[1].cv[i] = Encode(Schema[s].fields[order'[i].path].kind, v)
               /\ token'[1] = [ct |-> now, rt |-> list.rt, fh |-> hashFilter(list.filter),
                               cv |-> token'[1].cv, of |-> order']
    <3>1. token' = resp.next /\ order' = plan.order
      BY <1>1, <1>4
    <3>2. PICK cv : /\ token' = << [ct |-> now, rt |-> list.rt,
                                    fh |-> hashFilter(list.filter),
                                    cv |-> cv, of |-> plan.order] >>
                    /\ cv = [i \in DOMAIN plan.order |-> cv[i]]
                    /\ \A i \in DOMAIN plan.order : \E v :
                          cv[i] = Encode(Schema[s].fields[plan.order[i].path].kind, v)
      BY <2>6, <2>7, <3>1
    <3>3. /\ cv = [i \in DOMAIN order' |-> cv[i]]
          /\ \A i \in DOMAIN order' : \E v :
                cv[i] = Encode(Schema[s].fields[order'[i].path].kind, v)
      BY <3>1, <3>2
    <3> DEFINE tok == [ct |-> now, rt |-> list.rt, fh |-> hashFilter(list.filter),
                       cv |-> cv, of |-> order']
    <3>4. /\ tok.ct = now /\ tok.rt = list.rt /\ tok.fh = hashFilter(list.filter)
          /\ tok.cv = cv /\ tok.of = order'
      OBVIOUS
    <3>5. tok = [ct |-> now, rt |-> list.rt, fh |-> hashFilter(list.filter),
                 cv |-> tok.cv, of |-> order']
      BY <3>4
    <3>6. token' = <<tok>>
      BY <3>1, <3>2
    <3> HIDE DEF tok
    <3>7. token'[1] = tok
      BY <3>6
    <3>8. token'[1].cv = cv
      BY <3>4, <3>7
    <3>9. \A i \in DOMAIN order' : \E v :
             token'[1].cv[i] = Encode(Schema[s].fields[order'[i].path].kind, v)
      BY <3>3, <3>8
    <3>10. token'[1].cv = [i \in DOMAIN order' |-> token'[1].cv[i]]
      BY <3>3, <3>8
    <3> QED
      BY <3>4, <3>5, <3>6, <3>7, <3>9, <3>10
  <2>8. /\ phase' = IF token' = <<>> THEN "done" ELSE "listing"
        /\ order' = EffectiveOrderBy(Schema[s], list.orderBy).fields
        /\ Keyed(order')
        /\ seen' = seen \o resp.rows /\ owed' = owed \ Elements(resp.rows)
        /\ issued' = issued \cup
              { [tok |-> t, shown |-> Elements(seen'), owed |-> owed', list |-> list] :
                   t \in Elements(token') }
    BY <1>1, <1>4, <2>3, <2>4
  <2> QED
    BY <1>2, <2>3, <2>5, <2>7, <2>8
<1> QED
  BY <1>3, <1>4

---------------------------------------------------------------------------
(* Paging by tokens keeps the promise of a list. *)

\* An answered page is a batch of the promise: new rows only, and all that is
\* owed when the list ends.
LEMMA PageIsABatch ==
    ASSUME KeyedSchemas, ListInv, ListInv',
           NEW s \in Servers, NEW size \in PageSizes, NextPage(s, size)
    PROVE  Promise!Give \/ Promise!Fail
<1>1. /\ phase = "listing"
      /\ \/ phase' = "failed" /\ UNCHANGED <<seen, owed>>
         \/ /\ phase' \in {"listing", "done"} /\ Keyed(order')
            /\ \E rows \in Seq(Row) : seen' = seen \o rows /\ owed' = owed \ Elements(rows)
  BY AnswerOfNextPage
<1>2. CASE phase' = "failed" /\ UNCHANGED <<seen, owed>>
  BY <1>1, <1>2 DEF Promise!Fail
<1>3. CASE /\ phase' \in {"listing", "done"} /\ Keyed(order')
           /\ \E rows \in Seq(Row) : seen' = seen \o rows /\ owed' = owed \ Elements(rows)
  <2>1. PICK rows \in Seq(Row) : seen' = seen \o rows /\ owed' = owed \ Elements(rows)
    BY <1>3
  <2>2. seen \in Seq(Row) /\ seen' \in Seq(Row)
    BY DEF ListInv
  <2>3. /\ Len(seen') = Len(seen) + Len(rows) /\ Len(seen) \in Nat /\ Len(rows) \in Nat
        /\ SubSeq(seen', 1, Len(seen)) = seen
        /\ \A i \in 1..Len(rows) : seen'[Len(seen) + i] = rows[i]
        /\ DOMAIN rows = 1..Len(rows)
    BY <2>1, <2>2
  <2>4. Promise!Batch = Elements(rows)
    <3>1. ASSUME NEW i \in (Len(seen) + 1)..Len(seen')
          PROVE  seen'[i] \in Elements(rows)
      <4>1. i - Len(seen) \in DOMAIN rows /\ seen'[i] = rows[i - Len(seen)]
        BY <2>3
      <4> QED
        BY <4>1 DEF Elements
    <3>2. ASSUME NEW i \in DOMAIN rows
          PROVE  rows[i] \in Promise!Batch
      <4>1. Len(seen) + i \in (Len(seen) + 1)..Len(seen') /\ seen'[Len(seen) + i] = rows[i]
        BY <2>3
      <4> QED
        BY <4>1 DEF Promise!Batch
    <3> QED
      BY <3>1, <3>2 DEF Elements, Promise!Batch
  <2>5. ASSUME NEW i \in DOMAIN seen', NEW j \in DOMAIN seen', seen'[i] = seen'[j]
        PROVE  i = j
    <3>1. i \in 1..Len(seen') /\ j \in 1..Len(seen') /\ seen'[i] \in Row
      BY <2>2
    <3>2. ~SortsBefore(order', Key(order', seen'[i]), Key(order', seen'[i]))
      <4>1. IsKey(order', Key(order', seen'[i]))
        BY <1>3, <3>1, KeyedOrders DEF Keyed
      <4> QED
        BY <4>1, SortsBeforeIrreflexive
    <3>3. ~(i < j) /\ ~(j < i)
      BY <2>5, <3>1, <3>2 DEF ListInv, StrictlyOrdered
    <3> QED
      BY <3>1, <3>3
  <2>6. phase' = "done" => owed' = {}
    BY DEF ListInv, NothingSkipped
  <2>7. Len(seen') >= Len(seen) /\ owed' = owed \ Promise!Batch
    BY <2>1, <2>3, <2>4
  <2> QED
    BY <1>1, <1>3, <2>3, <2>5, <2>6, <2>7 DEF Promise!Give
<1> QED
  BY <1>1, <1>2, <1>3

\* Every step of a list is a step of the promise, or leaves it as it was.
LEMMA StepKeepsPromise ==
    ASSUME KeyedSchemas, ListInv, ListInv', [Next]_vars
    PROVE  [Promise!Next]_<<phase, seen, owed>>
<1>1. ASSUME NEW rt \in ResourceTypes, NEW filter \in Filters, NEW orderBy \in OrderBys,
             StartList(rt, filter, orderBy)
      PROVE  Promise!Next
  <2>1. tables[rt] \subseteq Row
    BY DEF ListInv
  <2>2. Matching(rt, filter) \subseteq Row
    BY <2>1 DEF Matching
  <2> QED
    BY <1>1, <2>2 DEF StartList, Promise!Next, Promise!Begin
<1>2. ASSUME NEW s \in Servers, NEW size \in PageSizes, NextPage(s, size)
      PROVE  Promise!Next
  BY <1>2, PageIsABatch DEF Promise!Next
<1>3. ASSUME NEW rt, NEW rows, Write(rt, rows)
      PROVE  Promise!Next
  BY <1>3 DEF Write, Promise!Next, Promise!Forget
<1>4. CASE UNCHANGED <<phase, seen, owed>>
  BY <1>4
<1> QED
  BY <1>1, <1>2, <1>3, <1>4
     DEF Next, AskNextPage, Insert, Delete, Update, Tick, client, vars

\* Under schemas whose tie-breaker holds the unique key, paging through a table
\* that others write to implements the abstract list: rows are given in batches,
\* none twice, and the list ends only when nothing is owed
\* (ExecuteWithCondition called page after page).
THEOREM PagingKeepsPromise == ASSUME KeyedSchemas PROVE Spec => KeepsPromise
<1>1. Init => Promise!Init
  BY DEF Init, Promise!Init
<1>2. ListInv /\ ListInv' /\ [Next]_vars => [Promise!Next]_<<phase, seen, owed>>
  BY StepKeepsPromise
<1>3. Spec => []ListInv
  BY ListInvariant
<1> QED
  BY <1>1, <1>2, <1>3, PTL DEF Spec, KeepsPromise, Promise!Spec

---------------------------------------------------------------------------
(* A token presented again. *)

\* What every token ever handed out still says of its list: the resource and
\* the filter it belongs to, and, in its cursor, a row that none of the rows
\* then shown and all of the rows then owed sort after.
GoodToken(e) ==
    /\ e.tok.ct \in Int
    /\ e.tok.rt = e.list.rt
    /\ e.tok.fh = hashFilter(e.list.filter)
    /\ e.list.filter \in Filters
    /\ Keyed(e.tok.of)
    /\ e.shown \subseteq Row /\ e.owed \subseteq Row
    /\ \E last \in Row :
          /\ \A i \in DOMAIN e.tok.of : e.tok.cv[i].text = last[e.tok.of[i].path]
          /\ \A r \in e.shown :
                ~SortsBefore(e.tok.of, Key(e.tok.of, last), Key(e.tok.of, r))
          /\ \A r \in e.owed :
                SortsBefore(e.tok.of, Key(e.tok.of, last), Key(e.tok.of, r))

\* The inductive invariant behind TokenResumes, beside ListInv.
IssuedInv ==
    /\ now \in Int
    /\ phase # "idle" => list.filter \in Filters
    /\ \A e \in issued : GoodToken(e)


\* The token of a page is a good one, and stays so: what it says is of the past.
LEMMA NextPageKeepsIssuedInv ==
    ASSUME KeyedSchemas, ListInv, ListInv', IssuedInv,
           NEW s \in Servers, NEW size \in PageSizes, NextPage(s, size)
    PROVE  IssuedInv'
<1>1. /\ phase = "listing" /\ UNCHANGED <<tables, now, list>>
  BY AnswerOfNextPage
<1>2. CASE UNCHANGED issued
  BY <1>1, <1>2 DEF IssuedInv
<1>3. CASE /\ Keyed(order')
           /\ issued' = issued \cup
                 { [tok |-> t, shown |-> Elements(seen'), owed |-> owed', list |-> list] :
                      t \in Elements(token') }
           /\ token' # <<>> =>
                 /\ token' = <<token'[1]>>
                 /\ token'[1].ct = now
                 /\ token'[1].rt = list.rt
                 /\ token'[1].fh = hashFilter(list.filter)
                 /\ token'[1].of = order'
  <2>1. ASSUME NEW e \in issued', e \notin issued
        PROVE  GoodToken(e)
    <3>1. PICK t \in Elements(token') :
             e = [tok |-> t, shown |-> Elements(seen'), owed |-> owed', list |-> list]
      BY <1>3, <2>1
    <3>2. token' # <<>>
      BY <3>1 DEF Elements
    <3>3. token' = <<token'[1]>>
      BY <1>3, <3>2
    <3>4. t = token'[1]
      <4> DEFINE u == token'[1]
      <4>1. token' = <<u>>
        BY <3>3
      <4> HIDE DEF u
      <4>2. t = u
        BY <3>1, <4>1 DEF Elements
      <4> QED
        BY <4>2 DEF u
    <3>5. /\ e.tok = t /\ e.shown = Elements(seen') /\ e.owed = owed' /\ e.list = list
      BY <3>1
    <3>6. /\ t.ct = now /\ t.rt = list.rt /\ t.fh = hashFilter(list.filter) /\ t.of = order'
      BY <1>3, <3>2, <3>4
    <3>7. /\ seen' \in Seq(Row) /\ seen' # <<>>
          /\ \A i \in DOMAIN order' : t.cv[i].text = LastSeen'[order'[i].path]
          /\ \A r \in owed' : SortsBefore(order', Key(order', LastSeen'), Key(order', r))
      BY <3>2, <3>4 DEF ListInv, TokenAtLast
    <3>8. LastSeen' \in Row
      BY <3>7 DEF LastSeen
    <3>9. \A r \in Elements(seen') :
             ~SortsBefore(order', Key(order', LastSeen'), Key(order', r))
      <4>1. ASSUME NEW r \in Elements(seen')
            PROVE  ~SortsBefore(order', Key(order', LastSeen'), Key(order', r))
        <5>1. Keyed(order') /\ seen' \in Seq(Row) /\ StrictlyOrdered'
          BY <1>3 DEF ListInv
        <5>2. PICK i \in 1..Len(seen') : r = seen'[i]
          BY <3>7 DEF Elements
        <5>3. Len(seen') \in 1..Len(seen') /\ r \in Row
          BY <3>7, <5>2
        <5>4. IsOrder(order') /\ \A q \in Row : IsKey(order', Key(order', q))
          BY <5>1, KeyedOrders DEF Keyed
        <5>5. CASE i = Len(seen')
          BY <3>8, <5>2, <5>4, <5>5, SortsBeforeIrreflexive DEF LastSeen
        <5>6. CASE i < Len(seen')
          <6>1. SortsBefore(order', Key(order', r), Key(order', LastSeen'))
            BY <5>1, <5>2, <5>3, <5>6 DEF StrictlyOrdered, LastSeen
          <6>2. ~SortsBefore(order', Key(order', r), Key(order', r))
            BY <5>3, <5>4, SortsBeforeIrreflexive
          <6> QED
            BY <3>8, <5>3, <5>4, <6>1, <6>2, SortsBeforeTransitive
        <5> QED
          BY <5>2, <5>5, <5>6, <5>3
      <4> QED
        BY <4>1
    <3>10. Elements(seen') \subseteq Row /\ owed' \subseteq Row
      <4>1. tables'[list'.rt] \subseteq Row
        BY DEF ListInv
      <4> QED
        BY <3>7, <4>1 DEF ListInv, Matching, Elements
    <3>11. list.filter \in Filters /\ now \in Int
      BY <1>1 DEF IssuedInv
    <3> QED
      BY <1>3, <3>5, <3>6, <3>7, <3>8, <3>9, <3>10, <3>11 DEF GoodToken
  <2>2. \A e \in issued' : GoodToken(e)
    BY <2>1 DEF IssuedInv
  <2> QED
    BY <1>1, <2>2 DEF IssuedInv
<1> QED
  BY <1>2, <1>3, AnswerOfNextPage

\* Every step keeps what the tokens say.
LEMMA NextKeepsIssuedInv ==
    ASSUME KeyedSchemas, ListInv, ListInv', IssuedInv, [Next]_vars
    PROVE  IssuedInv'
<1>1. ASSUME NEW rt \in ResourceTypes, NEW filter \in Filters, NEW orderBy \in OrderBys,
             StartList(rt, filter, orderBy)
      PROVE  IssuedInv'
  <2>1. list'.filter \in Filters /\ UNCHANGED <<now, issued>>
    BY <1>1 DEF StartList
  <2> QED
    BY <2>1 DEF IssuedInv
<1>2. ASSUME NEW s \in Servers, NEW size \in PageSizes, NextPage(s, size)
      PROVE  IssuedInv'
  BY <1>2, NextPageKeepsIssuedInv
<1>3. ASSUME NEW rt, NEW rows, Write(rt, rows)
      PROVE  IssuedInv'
  BY <1>3 DEF Write, IssuedInv
<1>4. CASE Tick
  BY <1>4 DEF Tick, client, IssuedInv
<1>5. CASE UNCHANGED vars
  BY <1>5 DEF vars, IssuedInv
<1> QED
  BY <1>1, <1>2, <1>3, <1>4, <1>5 DEF Next, AskNextPage, Insert, Delete, Update

\* Under schemas whose tie-breaker holds the unique key every token issued stays
\* a good one, whatever happens to the table after it.
THEOREM TokensStayGood == ASSUME KeyedSchemas PROVE Spec => []IssuedInv
<1>1. Init => IssuedInv
  BY DEF Init, IssuedInv
<1>2. ListInv /\ ListInv' /\ IssuedInv /\ [Next]_vars => IssuedInv'
  BY NextKeepsIssuedInv
<1>3. Spec => []ListInv
  BY ListInvariant
<1> QED
  BY <1>1, <1>2, <1>3, PTL DEF Spec

\* The hash of a filter is the filter's own.
LEMMA HashesAreInjective ==
    ASSUME NEW f \in Filters, NEW g \in Filters, hashFilter(f) = hashFilter(g)
    PROVE  f = g
<1>1. (f = <<>> \/ f = << f[1] >>) /\ (g = <<>> \/ g = << g[1] >>)
  BY PaginationAssumption
<1> DEFINE x == f[1]
           y == g[1]
<1>2. CASE f # <<>> /\ g # <<>>
  <2>1. << [sha256 |-> x] >> = << [sha256 |-> y] >>
    BY <1>2 DEF hashFilter
  <2>2. f = <<x>> /\ g = <<y>>
    BY <1>1, <1>2
  <2> HIDE DEF x, y
  <2>3. [sha256 |-> x] = [sha256 |-> y]
    BY <2>1
  <2> QED
    BY <2>2, <2>3
<1>3. CASE f = <<>> \/ g = <<>>
  BY <1>3 DEF hashFilter
<1> QED
  BY <1>2, <1>3

\* A token a server accepts is young, of its resource and of the filter asked for.
LEMMA AcceptedToken ==
    ASSUME NEW schema, NEW req, NEW time, NEW tok, req.token = <<tok>>,
           BuildPlan(schema, req, time).err = OK
    PROVE  /\ ~(time - tok.ct > TokenMaxAge)
           /\ tok.rt = schema.resourceType
           /\ tok.fh = hashFilter(req.filter)
<1>1. DecodeToken(req.token).tok = req.token
  BY DEF BuildPlan, DecodeToken, OK, ErrInvalidOrderBy, ErrInvalidPageToken
<1>2. ValidateToken(req.token, schema, req.filter, time) = OK
  BY <1>1 DEF BuildPlan, OK, ErrInvalidOrderBy, ErrInvalidPageToken
<1>3. req.token # <<>> /\ req.token[1] = tok
  OBVIOUS
<1> QED
  BY <1>2, <1>3 DEF ValidateToken, OK, ErrInvalidPageToken, ErrFilterMismatch

\* Under schemas whose tie-breaker holds the unique key, a token presented to any
\* server, with any filter and order, at any later time is refused or goes on
\* exactly where its list stopped (ValidateToken, decodeCursorValues).
THEOREM TokensResume == ASSUME KeyedSchemas PROVE Spec => []TokenResumes
<1>1. ASSUME IssuedInv, NEW e \in issued, NEW s \in Servers, NEW f \in Filters,
             NEW o \in OrderBys,
             NEW req, req = [size |-> 0, filter |-> f, orderBy |-> o, token |-> <<e.tok>>],
             NEW plan, plan = BuildPlan(Schema[s], req, now), plan.err = OK
      PROVE  /\ Schema[s].resourceType = e.list.rt
             /\ f = e.list.filter
             /\ now <= e.tok.ct + TokenMaxAge
             /\ \A r \in e.shown : ~Qualifies(plan, r)
             /\ \A r \in e.owed : Qualifies(plan, r)
  <2>1. GoodToken(e) /\ now \in Int /\ TokenMaxAge \in Int
    BY <1>1, ListSchemaAssumption DEF IssuedInv
  <2> DEFINE tok == e.tok
  <2>2. /\ req.size \in Int /\ req.filter = f /\ req.orderBy \in OrderBys \cup {<<>>}
        /\ req.token = <<tok>>
    BY <1>1
  <2>3. /\ ~(now - tok.ct > TokenMaxAge)
        /\ tok.rt = Schema[s].resourceType
        /\ tok.fh = hashFilter(f)
    <3> HIDE DEF tok
    <3> QED
      BY <1>1, <2>2, AcceptedToken
  <2>4. f = e.list.filter
    BY <2>1, <2>3, HashesAreInjective DEF GoodToken
  <2>5. tok.of # <<>> /\ Len(tok.of) # 0 /\ tok.of \in Seq(OrderFields)
    BY <2>1 DEF GoodToken, Keyed, PathsOf
  <2>6. req.token # <<>> /\ req.token[1] = tok
    <3> HIDE DEF tok
    <3> QED
      BY <2>2
  <2>7. plan.order = tok.of /\ plan.vals = [i \in DOMAIN tok.of |-> tok.cv[i].text]
    <3>1. BuildPlan(Schema[s], req, now).err = OK
      BY <1>1
    <3> HIDE DEF tok
    <3>2. LET p == BuildPlan(Schema[s], req, now) IN
          req.token # <<>> /\ req.token[1].of # <<>> =>
             /\ p.order = req.token[1].of
             /\ p.vals = [i \in DOMAIN p.order |-> req.token[1].cv[i].text]
      BY <2>2, <3>1, PlanOfAcceptedRequest
    <3>3. /\ plan.order = tok.of
          /\ plan.vals = [i \in DOMAIN plan.order |-> req.token[1].cv[i].text]
      BY <1>1, <2>5, <2>6, <3>2
    <3> QED
      BY <2>6, <3>3
  <2>8. PICK last \in Row :
           /\ \A i \in DOMAIN tok.of : tok.cv[i].text = last[tok.of[i].path]
           /\ \A r \in e.shown : ~SortsBefore(tok.of, Key(tok.of, last), Key(tok.of, r))
           /\ \A r \in e.owed : SortsBefore(tok.of, Key(tok.of, last), Key(tok.of, r))
    BY <2>1 DEF GoodToken
  <2>9. plan.vals = Key(tok.of, last)
    BY <2>7, <2>8 DEF Key
  <2>10. IsOrder(tok.of) /\ \A r \in Row : IsKey(tok.of, Key(tok.of, r))
    BY <2>5, KeyedOrders
  <2>11. plan.vals # <<>>
    <3>1. 1 \in DOMAIN plan.vals
      BY <2>5, <2>7
    <3> QED
      BY <3>1
  <2>12. \A r \in Row : Qualifies(plan, r) <=> SortsBefore(tok.of, Key(tok.of, last), Key(tok.of, r))
    <3> TAKE r \in Row
    <3> HIDE DEF tok
    <3>1. KeysetCondition(tok.of, plan.vals, Key(tok.of, r))
             <=> SortsBefore(tok.of, plan.vals, Key(tok.of, r))
      BY <2>5, <2>9, <2>10, <2>11, KeysetKeepsWhatSortsAfter
    <3> QED
      BY <2>7, <2>9, <3>1 DEF Qualifies
  <2>13. e.shown \subseteq Row /\ e.owed \subseteq Row
    BY <2>1 DEF GoodToken
  <2>14. now <= e.tok.ct + TokenMaxAge /\ Schema[s].resourceType = e.list.rt
    BY <2>1, <2>3 DEF GoodToken
  <2> QED
    BY <2>4, <2>8, <2>12, <2>13, <2>14
<1>2. IssuedInv => TokenResumes
  BY <1>1 DEF TokenResumes
<1>3. Spec => []IssuedInv
  BY TokensStayGood
<1> QED
  BY <1>2, <1>3, PTL

---------------------------------------------------------------------------
(* The shape of the variables. *)

\* A sequence of fields whose paths are all in D.
LEMMA FieldsWithin ==
    ASSUME NEW ord \in Seq(OrderFields), NEW D, PathsOf(ord) \subseteq D
    PROVE  ord \in Seq([path : D, dir : {Asc, Desc}])
<1>1. /\ Len(ord) \in Nat /\ DOMAIN ord = 1..Len(ord)
      /\ ord = [i \in 1..Len(ord) |-> ord[i]]
      /\ \A i \in 1..Len(ord) : ord[i] \in OrderFields
  OBVIOUS
<1>2. \A i \in 1..Len(ord) : ord[i] \in [path : D, dir : {Asc, Desc}]
  BY <1>1 DEF PathsOf, OrderFields
<1> QED
  BY <1>1, <1>2, FunctionIsSeq

\* The order a server makes of an order_by it accepts names fields it lists.
LEMMA EffectiveOrderIsListed ==
    ASSUME KeyedSchemas, NEW s \in Servers, NEW spec \in OrderBys \cup {<<>>},
           EffectiveOrderBy(Schema[s], spec).err = OK
    PROVE  \A i \in DOMAIN EffectiveOrderBy(Schema[s], spec).fields :
              EffectiveOrderBy(Schema[s], spec).fields[i].path \in DOMAIN Schema[s].fields
<1> DEFINE ob   == ParseOrderBy(spec)
           base == IF ob.fields = <<>> THEN Schema[s].defaultOrder ELSE ob.fields
           tie  == Schema[s].tieBreaker
           D    == DOMAIN Schema[s].fields
           F    == [path : D, dir : {Asc, Desc}]
           ord  == EffectiveOrderBy(Schema[s], spec).fields
<1>1. /\ ob.err = OK
      /\ \A path \in PathsOf(ob.fields) : Orderable(Schema[s], path)
      /\ ord = AppendUniqueFields(base, tie)
  BY DEF EffectiveOrderBy, OK, ErrInvalidOrderBy
<1>2. base \in Seq(OrderFields) /\ tie \in Seq(OrderFields)
  BY <1>1, ParsedOrder DEF KeyedSchemas
<1>3. PathsOf(base) \subseteq D /\ PathsOf(tie) \subseteq D
  BY <1>1, PaginationAssumption DEF Validate, Orderable
<1> HIDE DEF base, tie, D, ord
<1>4. base \in Seq(F) /\ tie \in Seq(F)
  BY <1>2, <1>3, FieldsWithin
<1>5. ord \in Seq(F)
  <2> HIDE DEF F
  <2> QED
    BY <1>1, <1>4, AppendUniqueFieldsType
<1>6. \A i \in DOMAIN ord : ord[i].path \in D
  <2>1. \A i \in DOMAIN ord : ord[i] \in F
    <3> HIDE DEF F
    <3> QED
      BY <1>5
  <2> QED
    BY <2>1
<1> QED
  BY <1>6 DEF D, ord

\* The token of a page has the shape of a token.
LEMMA TokenIsTyped ==
    ASSUME KeyedSchemas, ListInv, ListInv', IssuedInv, now \in 0..MaxTime,
           NEW s \in Servers, NEW size \in PageSizes, NextPage(s, size)
    PROVE  (phase' = "failed" /\ UNCHANGED <<token, issued>>) \/ IsToken(token')
<1>1. CASE phase' = "failed" /\ UNCHANGED <<token, issued>>
  BY <1>1
<1>2. CASE token' = <<>>
  BY <1>2 DEF IsToken
<1>3. CASE /\ token' # <<>>
           /\ phase = "listing"
           /\ EffectiveOrderBy(Schema[s], list.orderBy).err = OK
           /\ order' = EffectiveOrderBy(Schema[s], list.orderBy).fields
           /\ Keyed(order')
           /\ token' = <<token'[1]>>
           /\ token'[1].cv = [i \in DOMAIN order' |-> token'[1].cv[i]]
           /\ \A i \in DOMAIN order' : \E v :
                 token'[1].cv[i] = Encode(Schema[s].fields[order'[i].path].kind, v)
           /\ token'[1] = [ct |-> now, rt |-> list.rt, fh |-> hashFilter(list.filter),
                           cv |-> token'[1].cv, of |-> order']
  <2> DEFINE cv == token'[1].cv
             T  == [kind : STRING, text : Values]
  <2>1. /\ seen' \in Seq(Row) /\ seen' # <<>>
        /\ \A i \in DOMAIN order' : cv[i].text = LastSeen'[order'[i].path]
    BY <1>3 DEF ListInv, TokenAtLast
  <2>2. LastSeen' \in [Columns -> Values]
    BY <2>1 DEF LastSeen, Row
  <2>3. \A i \in DOMAIN order' : order'[i].path \in Columns
    <3>1. \A i \in DOMAIN order' : order'[i] \in OrderFields
      BY <1>3 DEF Keyed
    <3> QED
      BY <3>1 DEF OrderFields
  <2>4. list.orderBy \in OrderBys \cup {<<>>} /\ list.rt \in ResourceTypes
    BY DEF ListInv
  <2>5. \A i \in DOMAIN order' : Schema[s].fields[order'[i].path].kind \in STRING
    <3>1. \A i \in DOMAIN order' : order'[i].path \in DOMAIN Schema[s].fields
      BY <1>3, <2>4, EffectiveOrderIsListed
    <3> QED
      BY <3>1, PaginationAssumption
  <2>6. ASSUME NEW i \in DOMAIN order'
        PROVE  cv[i] \in T
    <3>1. PICK v : cv[i] = Encode(Schema[s].fields[order'[i].path].kind, v)
      BY <1>3
    <3> DEFINE kind == Schema[s].fields[order'[i].path].kind
    <3>2. kind \in STRING /\ cv[i] = [kind |-> kind, text |-> v]
      BY <2>5, <3>1 DEF Encode
    <3>3. v = cv[i].text
      <4> HIDE DEF cv, kind
      <4> QED
        BY <3>2
    <3>4. v \in Values
      BY <2>1, <2>2, <2>3, <3>3
    <3> HIDE DEF cv, kind
    <3> QED
      BY <3>2, <3>4
  <2>7. order' \in Seq(OrderFields) /\ Len(order') \in Nat /\ DOMAIN order' = 1..Len(order')
    BY <1>3 DEF Keyed
  <2>8. cv \in Seq(T)
    <3>1. cv = [i \in 1..Len(order') |-> cv[i]]
      BY <1>3, <2>7
    <3> HIDE DEF cv, T
    <3> QED
      BY <2>6, <2>7, <3>1, FunctionIsSeq
  <2>9. hashFilter(list.filter) \in { hashFilter(f) : f \in Filters }
    BY <1>3 DEF IssuedInv
  <2> DEFINE tok == token'[1]
  <2>10. tok \in TokenType
    <3> DEFINE H == { hashFilter(f) : f \in Filters }
               h == hashFilter(list.filter)
    <3>1. tok = [ct |-> now, rt |-> list.rt, fh |-> h, cv |-> cv, of |-> order']
      BY <1>3
    <3>2. h \in H
      BY <2>9
    <3>3. TokenType = [ct : 0..MaxTime, rt : ResourceTypes, fh : H, cv : Seq(T),
                       of : Seq(OrderFields)]
      BY DEF TokenType
    <3> HIDE DEF tok, H, h, cv, T
    <3> QED
      BY <2>4, <2>7, <2>8, <3>1, <3>2, <3>3
  <2>11. token' = <<tok>>
    BY <1>3
  <2> HIDE DEF tok
  <2> QED
    BY <2>10, <2>11 DEF IsToken
<1> QED
  BY <1>1, <1>2, <1>3, AnswerOfNextPage

\* The shape a list's own invariants say nothing of; with them it is TypeOK.
BoundsInv ==
    /\ now \in 0..MaxTime /\ writes \in 0..MaxWrites
    /\ phase \in {"idle", "listing", "done", "failed"}
    /\ list \in [rt : ResourceTypes, filter : Filters \cup {<<>>},
                 orderBy : OrderBys \cup {<<>>}]
    /\ IsToken(token)
    /\ \A e \in issued : IsToken(<<e.tok>>)

\* Every step keeps it.
LEMMA NextKeepsBounds ==
    ASSUME KeyedSchemas, ListInv, ListInv', IssuedInv, BoundsInv, [Next]_vars
    PROVE  BoundsInv'
<1>1. ASSUME NEW rt \in ResourceTypes, NEW filter \in Filters, NEW orderBy \in OrderBys,
             StartList(rt, filter, orderBy)
      PROVE  BoundsInv'
  BY <1>1 DEF StartList, BoundsInv
<1>2. ASSUME NEW s \in Servers, NEW size \in PageSizes, NextPage(s, size)
      PROVE  BoundsInv'
  <2>1. UNCHANGED <<now, writes, list>>
    BY <1>2, AnswerOfNextPage
  <2>2. phase' \in {"listing", "done", "failed"}
    BY <1>2, AnswerOfNextPage
  <2>3. now \in 0..MaxTime
    BY DEF BoundsInv
  <2>4. IsToken(token')
    BY <1>2, <2>3, TokenIsTyped DEF BoundsInv
  <2>5. ASSUME NEW e \in issued'
        PROVE  IsToken(<<e.tok>>)
    <3>1. CASE e \in issued
      BY <3>1 DEF BoundsInv
    <3>2. CASE e \notin issued
      <4>1. /\ issued' = issued \cup
                 { [tok |-> t, shown |-> Elements(seen'), owed |-> owed', list |-> list] :
                      t \in Elements(token') }
            /\ token' # <<>> => token' = <<token'[1]>>
        BY <1>2, <2>5, <3>2, AnswerOfNextPage
      <4>2. PICK t \in Elements(token') :
               e = [tok |-> t, shown |-> Elements(seen'), owed |-> owed', list |-> list]
        BY <2>5, <3>2, <4>1
      <4>3. token' = <<token'[1]>>
        BY <4>1, <4>2 DEF Elements
      <4> DEFINE u == token'[1]
      <4>4. token' = <<u>>
        BY <4>3
      <4> HIDE DEF u
      <4>5. t = u
        BY <4>2, <4>4 DEF Elements
      <4>6. <<e.tok>> = token'
        BY <4>2, <4>4, <4>5
      <4> QED
        BY <2>4, <4>6
    <3> QED
      BY <3>1, <3>2
  <2> QED
    BY <2>1, <2>2, <2>4, <2>5 DEF BoundsInv
<1>3. ASSUME NEW rt, NEW rows, Write(rt, rows)
      PROVE  BoundsInv'
  BY <1>3, PaginationAssumption DEF Write, BoundsInv
<1>4. CASE Tick
  BY <1>4, PaginationAssumption DEF Tick, client, BoundsInv
<1>5. CASE UNCHANGED vars
  BY <1>5 DEF vars, BoundsInv
<1> QED
  BY <1>1, <1>2, <1>3, <1>4, <1>5 DEF Next, AskNextPage, Insert, Delete, Update

\* In every state the bounds hold and what the servers issued are tokens.
LEMMA BoundsInvariant == ASSUME KeyedSchemas PROVE Spec => []BoundsInv
<1>1. Init => BoundsInv
  <2>1. ResourceTypes # {}
    BY PaginationAssumption DEF ResourceTypes
  <2> QED
    BY <2>1, PaginationAssumption DEF Init, BoundsInv, IsToken
<1>2. ListInv /\ ListInv' /\ IssuedInv /\ BoundsInv /\ [Next]_vars => BoundsInv'
  BY NextKeepsBounds
<1>3. (Spec => []ListInv) /\ (Spec => []IssuedInv)
  BY ListInvariant, TokensStayGood
<1> QED
  BY <1>1, <1>2, <1>3, PTL DEF Spec

\* Every variable keeps the shape its description gives it: what the servers
\* issue are tokens made of the rows of a table (EncodeToken).
THEOREM PagingIsTyped == ASSUME KeyedSchemas PROVE Spec => []TypeOK
<1>1. ListInv /\ IssuedInv /\ BoundsInv => TypeOK
  <2> SUFFICES ASSUME ListInv, IssuedInv, BoundsInv PROVE TypeOK
    OBVIOUS
  <2>1. owed \subseteq Row
    BY DEF ListInv, Matching
  <2>2. \A e \in issued : e.shown \subseteq Row /\ e.owed \subseteq Row
    BY DEF IssuedInv, GoodToken
  <2>3. tables \in [ResourceTypes -> SUBSET Row]
    BY DEF ListInv
  <2> QED
    BY <2>1, <2>2, <2>3 DEF TypeOK, ListInv, BoundsInv
<1>2. (Spec => []ListInv) /\ (Spec => []IssuedInv) /\ (Spec => []BoundsInv)
  BY ListInvariant, TokensStayGood, BoundsInvariant
<1> QED
  BY <1>1, <1>2, PTL

---------------------------------------------------------------------------
(* Among servers of one schema version only its age makes a token useless. *)

\* The token the client holds is of the list it reads, in the order and the
\* kinds of the schema that serves it.
OwnToken ==
    token # <<>> =>
        /\ token[1].rt = list.rt
        /\ token[1].fh = hashFilter(list.filter)
        /\ \E s \in Servers :
              /\ Schema[s].resourceType = list.rt
              /\ EffectiveOrderBy(Schema[s], list.orderBy).err = OK
              /\ order = EffectiveOrderBy(Schema[s], list.orderBy).fields
              /\ \A i \in DOMAIN order :
                    token[1].cv[i].kind = Schema[s].fields[order[i].path].kind
        /\ Len(token[1].cv) = Len(order)

\* Every step keeps it: a page's token is of the list the page belongs to, and
\* the list a token belongs to does not change.
LEMMA NextKeepsOwnToken ==
    ASSUME KeyedSchemas, ListInv, OwnToken, [Next]_vars
    PROVE  OwnToken'
<1>1. ASSUME NEW rt, NEW filter, NEW orderBy, StartList(rt, filter, orderBy)
      PROVE  OwnToken'
  <2>1. token' = <<>>
    BY <1>1 DEF StartList, ListInv
  <2> QED
    BY <2>1 DEF OwnToken
<1>2. ASSUME NEW s \in Servers, NEW size \in PageSizes, NextPage(s, size)
      PROVE  OwnToken'
  <2>1. Schema[s].resourceType = list.rt /\ list' = list
    BY <1>2, AnswerOfNextPage
  <2>2. CASE UNCHANGED <<order, token>>
    BY <2>1, <2>2 DEF OwnToken
  <2>3. CASE token' = <<>>
    BY <2>3 DEF OwnToken
  <2>4. CASE /\ token' # <<>>
             /\ EffectiveOrderBy(Schema[s], list.orderBy).err = OK
             /\ order' = EffectiveOrderBy(Schema[s], list.orderBy).fields
             /\ token'[1].rt = list.rt
             /\ token'[1].fh = hashFilter(list.filter)
             /\ \A i \in DOMAIN order' : \E v :
                   token'[1].cv[i] = Encode(Schema[s].fields[order'[i].path].kind, v)
             /\ token'[1].cv = [i \in DOMAIN order' |-> token'[1].cv[i]]
             /\ Keyed(order')
    <3>0. Len(token'[1].cv) = Len(order')
      <4> DEFINE cv == token'[1].cv
      <4>1. order' \in Seq(OrderFields) /\ cv = [i \in DOMAIN order' |-> cv[i]]
        BY <2>4 DEF Keyed
      <4> HIDE DEF cv
      <4>2. cv = [i \in 1..Len(order') |-> cv[i]] /\ Len(order') \in Nat
        BY <4>1
      <4>3. Len(cv) = Len(order')
        BY <4>2
      <4> QED
        BY <4>3 DEF cv
    <3>1. ASSUME NEW i \in DOMAIN order'
          PROVE  token'[1].cv[i].kind = Schema[s].fields[order'[i].path].kind
      <4> DEFINE text == token'[1].cv[i]
                 kind == Schema[s].fields[order'[i].path].kind
      <4>1. \E v : text = Encode(kind, v)
        BY <2>4
      <4> HIDE DEF text, kind
      <4>2. text.kind = kind
        BY <4>1 DEF Encode
      <4> QED
        BY <4>2 DEF text, kind
    <3> QED
      BY <2>1, <2>4, <3>0, <3>1 DEF OwnToken
  <2> QED
    BY <1>2, <2>2, <2>3, <2>4, AnswerOfNextPage
<1>3. CASE UNCHANGED <<order, token, list>>
  BY <1>3 DEF OwnToken
<1> QED
  BY <1>1, <1>2, <1>3
     DEF Next, AskNextPage, Insert, Delete, Update, Write, Tick, client, vars

\* A request with a young token of its own list is accepted.
LEMMA OwnTokenIsAccepted ==
    ASSUME KeyedSchemas, SteadySchemas, ListInv, BoundsInv, OwnToken, token # <<>>,
           ~(now > token[1].ct + TokenMaxAge),
           NEW s \in Servers, Schema[s].resourceType = list.rt,
           NEW req, req.filter = list.filter, req.orderBy = list.orderBy,
           req.token = token
    PROVE  /\ BuildPlan(Schema[s], req, now).err = OK
           /\ BuildPlan(Schema[s], req, now).size = PageSize(Schema[s], req.size)
           /\ \A i \in DOMAIN BuildPlan(Schema[s], req, now).order :
                 BuildPlan(Schema[s], req, now).order[i].path \in DOMAIN Schema[s].fields
<1> DEFINE effective == EffectiveOrderBy(Schema[s], req.orderBy)
           decoded   == DecodeToken(req.token)
           invalid   == ValidateToken(decoded.tok, Schema[s], req.filter, now)
           cursor    == DecodeCursorValues(Schema[s], decoded.tok, effective.fields)
<1>1. /\ token[1].rt = list.rt
      /\ token[1].fh = hashFilter(list.filter)
      /\ effective.err = OK /\ effective.fields = order
      /\ Len(token[1].cv) = Len(order)
      /\ \A i \in DOMAIN order :
            token[1].cv[i].kind = Schema[s].fields[order[i].path].kind
  <2>1. PICK t \in Servers :
           /\ Schema[t].resourceType = list.rt
           /\ EffectiveOrderBy(Schema[t], list.orderBy).err = OK
           /\ order = EffectiveOrderBy(Schema[t], list.orderBy).fields
           /\ \A i \in DOMAIN order :
                 token[1].cv[i].kind = Schema[t].fields[order[i].path].kind
    BY DEF OwnToken
  <2>2. Schema[t] = Schema[s]
    BY <2>1 DEF SteadySchemas
  <2> QED
    BY <2>1, <2>2 DEF OwnToken
<1>2. token[1] \in TokenType
  BY DEF BoundsInv, IsToken
<1>3. decoded.err = OK /\ decoded.tok = token
  <2>1. token # <<Garbled>>
    <3> SUFFICES ASSUME token = <<Garbled>> PROVE FALSE
      OBVIOUS
    <3>1. token[1] = Garbled
      OBVIOUS
    <3> QED
      BY <1>2, <3>1, GarbledAssumption
  <2> QED
    BY <2>1 DEF DecodeToken
<1>4. invalid = OK
  <2>1. token[1].ct \in Int /\ now \in Int /\ TokenMaxAge \in Int
    <3>1. token[1].ct \in 0..MaxTime
      BY <1>2 DEF TokenType
    <3> QED
      BY <3>1, ListSchemaAssumption DEF BoundsInv
  <2>2. ~(now - token[1].ct > TokenMaxAge)
    BY <2>1
  <2> QED
    BY <1>1, <1>3, <2>2 DEF ValidateToken
<1>5. cursor.err = OK
  <2>1. token[1].of = order
    BY DEF ListInv, TokenAtLast
  <2>2. \A i \in DOMAIN order :
           Decode(Schema[s].fields[order[i].path].kind, token[1].cv[i]).err = OK
    BY <1>1 DEF Decode
  <2> QED
    BY <1>1, <1>3, <2>1, <2>2 DEF DecodeCursorValues
<1>6. \A i \in DOMAIN effective.fields : effective.fields[i].path \in DOMAIN Schema[s].fields
  <2>1. list.orderBy \in OrderBys \cup {<<>>}
    BY DEF ListInv
  <2> QED
    BY <1>1, <2>1, EffectiveOrderIsListed
<1>7. BuildPlan(Schema[s], req, now)
         = [err |-> OK, size |-> PageSize(Schema[s], req.size),
            order |-> effective.fields, vals |-> cursor.vals]
  BY <1>1, <1>3, <1>4, <1>5 DEF BuildPlan
<1> HIDE DEF effective, cursor
<1> QED
  BY <1>6, <1>7

\* What a server answers is one of four things.
LEMMA AnswerCases ==
    ASSUME NEW schema, NEW req, NEW resp \in Responses(schema, req),
           NEW plan, plan = BuildPlan(schema, req, now), plan.err = OK,
           Comparable(schema, plan.order), ~(Limit(plan.size) < 0)
    PROVE  \E q \in QueryResults(plan.order, Asked(schema, req), Limit(plan.size)) :
              NextPageToken(schema, plan, req, q).err = OK => resp.err = OK
<1> DEFINE rows == Asked(schema, req)
           failed(err) == { [err |-> err, rows |-> <<>>, next |-> <<>>] }
           next(q) == NextPageToken(schema, plan, req, q)
           page(q) == IF Len(q) > plan.size THEN SubSeq(q, 1, plan.size) ELSE q
           response(q) == IF next(q).err # OK
                          THEN [err |-> next(q).err, rows |-> <<>>, next |-> <<>>]
                          ELSE [err |-> OK, rows |-> page(q), next |-> next(q).str]
           answers == { response(q) : q \in QueryResults(plan.order, rows, Limit(plan.size)) }
<1>1. Responses(schema, req) =
         IF plan.err # OK THEN failed(plan.err)
         ELSE IF plan.vals # <<>> /\ ~Comparable(schema, plan.order)
              THEN failed(ErrInvalidPageToken)
         ELSE IF Limit(plan.size) < 0 THEN failed("query execution failed")
         ELSE answers
  BY DEF Responses, Asked
<1> HIDE DEF failed, answers
<1>2. resp \in answers
  BY <1>1
<1> HIDE DEF response, next, page, rows
<1>3. PICK q \in QueryResults(plan.order, rows, Limit(plan.size)) : resp = response(q)
  BY <1>2 DEF answers
<1>4. next(q).err = OK => resp.err = OK
  BY <1>3 DEF response
<1> QED
  BY <1>4 DEF next, rows

\* Such a request is answered without an error.
LEMMA OwnTokenIsServed ==
    ASSUME KeyedSchemas, SteadySchemas, ListInv, BoundsInv, OwnToken, token # <<>>,
           ~(now > token[1].ct + TokenMaxAge),
           NEW s \in Servers, Schema[s].resourceType = list.rt,
           NEW req, req.filter = list.filter, req.orderBy = list.orderBy,
           req.token = token, req.size \in Int,
           NEW resp \in Responses(Schema[s], req)
    PROVE  resp.err = OK
<1> DEFINE plan == BuildPlan(Schema[s], req, now)
           rows == Asked(Schema[s], req)
<1>1. /\ plan.err = OK
      /\ plan.size = PageSize(Schema[s], req.size)
      /\ \A i \in DOMAIN plan.order : plan.order[i].path \in DOMAIN Schema[s].fields
  BY OwnTokenIsAccepted
<1>2. Keyed(plan.order) /\ plan.size \in Nat \ {0}
  <2>1. req.orderBy \in OrderBys \cup {<<>>}
    BY DEF ListInv
  <2> QED
    BY <1>1, <2>1, PlanOfAcceptedRequest
<1>3. Limit(plan.size) = plan.size + 1
  <2>1. /\ Schema[s].maxPageSize \in Int /\ Schema[s].maxPageSize < MaxInt
        /\ Schema[s].defaultPageSize \in Int /\ MaxInt \in Nat
    BY PaginationAssumption, ListSchemaAssumption DEF SteadySchemas
  <2>2. PageSize(Schema[s], req.size) <= Schema[s].maxPageSize
    BY <2>1 DEF PageSize
  <2> HIDE DEF plan
  <2> QED
    BY <1>1, <1>2, <2>1, <2>2 DEF Limit
<1>4. Comparable(Schema[s], plan.order)
  BY <1>1 DEF Comparable, SteadySchemas
<1>5. rows \subseteq Row /\ IsFiniteSet(rows) /\ UniqueKeys(rows)
  <2>1. rows \subseteq tables[list.rt]
    BY DEF Asked, Matching
  <2>2. /\ tables[list.rt] \subseteq Row /\ IsFiniteSet(tables[list.rt])
        /\ UniqueKeys(tables[list.rt])
    BY DEF ListInv
  <2> HIDE DEF rows
  <2> QED
    BY <2>1, <2>2, FS_Subset DEF UniqueKeys
<1> HIDE DEF plan, rows
<1>6. PICK q \in QueryResults(plan.order, rows, plan.size + 1) :
         NextPageToken(Schema[s], plan, req, q).err = OK => resp.err = OK
  <2>1. ~(Limit(plan.size) < 0)
    BY <1>2, <1>3
  <2> QED
    BY <1>1, <1>3, <1>4, <2>1, AnswerCases DEF plan, rows
<1>7. q \in Seq(rows) /\ Len(q) <= plan.size + 1
  BY <1>2, <1>5, <1>6, QueryReturnsFirstRows
<1>8. NextPageToken(Schema[s], plan, req, q).err = OK
  <2>1. CASE Len(q) <= plan.size
    BY <2>1 DEF NextPageToken
  <2>2. CASE ~(Len(q) <= plan.size)
    <3> DEFINE row  == q[plan.size]
               vals == ExtractCursorValues(plan.order, row)
    <3>1. row \in rows
      BY <1>2, <1>7, <2>2
    <3>2. row \in [Columns -> Values]
      BY <1>5, <3>1 DEF Row
    <3>3. \A i \in DOMAIN plan.order : plan.order[i].path \in Columns
      <4>1. \A i \in DOMAIN plan.order : plan.order[i] \in OrderFields
        BY <1>2 DEF Keyed
      <4> QED
        BY <4>1 DEF OrderFields
    <3> HIDE DEF row
    <3>4. \A i \in DOMAIN plan.order : vals[i] \in Values
      BY <3>2, <3>3 DEF ExtractCursorValues, Key
    <3> HIDE DEF vals
    <3>5. \A i \in DOMAIN plan.order :
             Encodable(Schema[s].fields[plan.order[i].path].kind, vals[i])
      BY <1>1, <3>4 DEF SteadySchemas
    <3>6. EncodeToken(Schema[s], vals, plan.order, req.filter, now).err = OK
      BY <3>5 DEF EncodeToken
    <3> QED
      BY <2>2, <3>6 DEF NextPageToken, vals, row
  <2> QED
    BY <2>1, <2>2
<1> QED
  BY <1>6, <1>8

\* Among servers that run one version of a schema, with a maximal page size below
\* the largest int32, columns go-jet can compare and values that have a cursor
\* encoding, only the age of its token stops a list that has begun
\* (BuildPlan, buildKeysetCondition, EncodeToken).
THEOREM OnlyExpiryStops ==
    ASSUME KeyedSchemas, SteadySchemas PROVE Spec => OnlyExpiryStopsAList
<1> DEFINE Stops == phase = "listing" /\ phase' = "failed" /\ token # <<>>
           Safe  == [Stops => now > token[1].ct + TokenMaxAge]_vars
<1>1. ASSUME ListInv, BoundsInv, OwnToken, [Next]_vars, Stops
      PROVE  now > token[1].ct + TokenMaxAge
  <2>1. PICK s \in Servers, size \in PageSizes : NextPage(s, size)
    BY <1>1 DEF Next, AskNextPage, StartList, Insert, Delete, Update, Write, Tick,
                client, vars
  <2> DEFINE req == [size |-> size, filter |-> list.filter, orderBy |-> list.orderBy,
                     token |-> token]
  <2>2. PICK resp \in Responses(Schema[s], req) : resp.err # OK
    BY <1>1, <2>1 DEF NextPage
  <2>3. Schema[s].resourceType = list.rt
    BY <2>1 DEF NextPage
  <2>4. /\ req.filter = list.filter /\ req.orderBy = list.orderBy /\ req.token = token
        /\ req.size \in Int
    BY PaginationAssumption
  <2> HIDE DEF req
  <2> QED
    BY <1>1, <2>2, <2>3, <2>4, OwnTokenIsServed
<1>2. Init => OwnToken
  BY DEF Init, OwnToken
<1>3. ListInv /\ OwnToken /\ [Next]_vars => OwnToken'
  BY NextKeepsOwnToken
<1>4. ListInv /\ BoundsInv /\ OwnToken /\ [Next]_vars => Safe
  BY <1>1
<1>5. (Spec => []ListInv) /\ (Spec => []BoundsInv)
  BY ListInvariant, BoundsInvariant
<1> QED
  BY <1>2, <1>3, <1>4, <1>5, PTL DEF Spec, OnlyExpiryStopsAList
===============================================================================
