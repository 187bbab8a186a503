------------------------------ MODULE ListSchema ------------------------------
(***************************************************************************)
(* How a list request is validated and turned into a query plan: the        *)
(* order_by string, the schema of a resource, the cursor codecs and the     *)
(* page token (pkg/aip/order.go, page.go, codec.go, pkg/aip/jet/schema.go,  *)
(* plan.go).  Everything here is a function of its arguments: the server    *)
(* keeps no state between two pages, the token carries it all.              *)
(*                                                                         *)
(* A result has a field err, "" when there is none; its other fields mean   *)
(* something only then.                                                     *)
(***************************************************************************)
EXTENDS Keyset

CONSTANTS
    NaN,          \* the value of a float column that has no cursor encoding;
                  \* PostgreSQL sorts it after every other float
    Garbled,      \* a page_token string that is not a token
    Reads(_, _),  \* Reads(kind, s): the codec of a kind reads the text s of
                  \* another kind, and as the same value
    TokenMaxAge,  \* the age past which a token is refused
    MaxInt        \* the largest int32

ASSUME ListSchemaAssumption == TokenMaxAge \in Nat /\ MaxInt \in Nat /\ NaN \in Int

\* The errors a caller can tell apart.
OK == ""
ErrInvalidOrderBy   == "invalid order_by"
ErrInvalidPageToken == "invalid page_token"
ErrFilterMismatch   == "filter mismatch"

---------------------------------------------------------------------------
(* order_by: an order_by string is a sequence of field specifications, each *)
(* a sequence of words; "" is the empty sequence.  Letter case of the        *)
(* direction and the character set are below this level of detail.          *)

\* One word is a path, two a path and a direction; no path comes twice.
WellFormed(spec) ==
    /\ \A i \in DOMAIN spec :
          /\ Len(spec[i]) \in 1..2
          /\ Len(spec[i]) = 2 => spec[i][2] \in {Asc, Desc}
    /\ \A i, j \in DOMAIN spec : spec[i][1] = spec[j][1] => i = j

ParseOrderBy(spec) ==
    IF WellFormed(spec)
    THEN [err |-> OK,
          fields |-> [i \in DOMAIN spec |->
                        [path |-> spec[i][1],
                         dir  |-> IF Len(spec[i]) = 2 THEN spec[i][2] ELSE Asc]]]
    ELSE [err |-> ErrInvalidOrderBy, fields |-> <<>>]

\* dst followed by the fields of add whose path is not there yet.
AppendUniqueFields(dst, add) ==
    LET grown[n \in 0..Len(add)] ==
            IF n = 0 THEN dst
            ELSE IF add[n].path \in PathsOf(grown[n - 1])
                 THEN grown[n - 1]
                 ELSE Append(grown[n - 1], add[n])
    IN  grown[Len(add)]

---------------------------------------------------------------------------
(* The schema of a resource: fields maps a path to [kind, disabled, wired], *)
(* where kind is the Go type its codec accepts, disabled its                *)
(* DisableOrdering flag, and wired says that Codec, GetValue and Column are *)
(* all set.                                                                 *)

Orderable(schema, path) ==
    path \in DOMAIN schema.fields /\ ~schema.fields[path].disabled

\* NewSchema panics on a schema that fails this.
Validate(schema) ==
    /\ schema.defaultPageSize >= 1
    /\ schema.maxPageSize >= 1
    /\ \A path \in PathsOf(schema.defaultOrder) \cup PathsOf(schema.tieBreaker) :
          Orderable(schema, path)
    /\ \A path \in DOMAIN schema.fields :
          ~schema.fields[path].disabled => schema.fields[path].wired

\* The client's order, or the default one, then the tie-breakers.
EffectiveOrderBy(schema, spec) ==
    LET ob == ParseOrderBy(spec) IN
    IF ob.err = OK /\ \A path \in PathsOf(ob.fields) : Orderable(schema, path)
    THEN [err |-> OK,
          fields |-> AppendUniqueFields(
                        IF ob.fields = <<>> THEN schema.defaultOrder ELSE ob.fields,
                        schema.tieBreaker)]
    ELSE [err |-> ErrInvalidOrderBy, fields |-> <<>>]

---------------------------------------------------------------------------
(* Cursor codecs: a value becomes a text, and nothing is lost on the way; NaN *)
(* has no text.  The kind a text remembers here is not part of it: whether    *)
(* another codec reads it depends on the text ("1" is an integer and a float, *)
(* "1e+06" only a float, and everything is a string).                         *)

Encodable(kind, v) == ~(kind = "float" /\ v = NaN)

Encode(kind, v) == [kind |-> kind, text |-> v]

Decode(kind, s) ==
    [err |-> IF s.kind = kind \/ Reads(kind, s) THEN OK ELSE ErrInvalidPageToken,
     val |-> s.text]

---------------------------------------------------------------------------
(* Page tokens.  A page_token string is <<>> when empty, else the one        *)
(* element it decodes to.                                                    *)

\* SHA-256 of a filter, taken to be injective.  A filter string is <<>> when
\* empty, and then has no hash.
hashFilter(filter) == IF filter = <<>> THEN <<>> ELSE << [sha256 |-> filter[1]] >>

ExtractCursorValues(order, row) == Key(order, row)

\* Mutant: the token holds the time it expires at.
EncodeTokenWithExpiry(schema, vals, order, filter, now) ==
    IF \A i \in DOMAIN order : Encodable(schema.fields[order[i].path].kind, vals[i])
    THEN [err |-> OK,
          str |-> << [ct |-> now + TokenMaxAge,
                      rt |-> schema.resourceType,
                      fh |-> hashFilter(filter),
                      cv |-> [i \in DOMAIN order |->
                                Encode(schema.fields[order[i].path].kind, vals[i])],
                      of |-> order] >>]
    ELSE [err |-> "not a valid cursor value", str |-> <<>>]

EncodeToken(schema, vals, order, filter, now) ==
    IF \A i \in DOMAIN order : Encodable(schema.fields[order[i].path].kind, vals[i])
    THEN [err |-> OK,
          str |-> << [ct |-> now,
                      rt |-> schema.resourceType,
                      fh |-> hashFilter(filter),
                      cv |-> [i \in DOMAIN order |->
                                Encode(schema.fields[order[i].path].kind, vals[i])],
                      of |-> order] >>]
    ELSE [err |-> "not a valid cursor value", str |-> <<>>]

DecodeToken(str) ==
    IF str = <<Garbled>> THEN [err |-> ErrInvalidPageToken, tok |-> <<>>]
                         ELSE [err |-> OK, tok |-> str]

\* Mutant: a token of exactly the maximal age is too old.
ValidateTokenEarly(tok, schema, filter, now) ==
    IF tok = <<>> THEN OK
    ELSE IF now - tok[1].ct >= TokenMaxAge THEN ErrInvalidPageToken
    ELSE IF tok[1].rt # schema.resourceType THEN ErrInvalidPageToken
    ELSE IF tok[1].fh # hashFilter(filter) THEN ErrFilterMismatch
    ELSE OK

\* Too old, then another resource's, then another filter's.
ValidateToken(tok, schema, filter, now) ==
    IF tok = <<>> THEN OK
    ELSE IF now - tok[1].ct > TokenMaxAge THEN ErrInvalidPageToken
    ELSE IF tok[1].rt # schema.resourceType THEN ErrInvalidPageToken
    ELSE IF tok[1].fh # hashFilter(filter) THEN ErrFilterMismatch
    ELSE OK

\* Mutant: only the number of fields is compared with the token's.
DecodeCursorValuesByLength(schema, tok, order) ==
    IF tok = <<>> \/ tok[1].of = <<>>
    THEN [err |-> OK, vals |-> <<>>]
    ELSE IF Len(tok[1].of) # Len(order)
         THEN [err |-> ErrInvalidPageToken, vals |-> <<>>]
         ELSE [err |-> OK, vals |-> [i \in DOMAIN order |-> tok[1].cv[i].text]]

\* The cursor of the token, refused when it is not one value per field or the
\* request's order is another one.  A token that orders by nothing has no cursor.
DecodeCursorValues(schema, tok, order) ==
    IF tok = <<>> \/ tok[1].of = <<>>
    THEN [err |-> OK, vals |-> <<>>]
    ELSE IF Len(tok[1].cv) # Len(tok[1].of) \/ tok[1].of # order
         THEN [err |-> ErrInvalidPageToken, vals |-> <<>>]
         ELSE LET decoded == [i \in DOMAIN order |->
                                Decode(schema.fields[order[i].path].kind, tok[1].cv[i])]
              IN  IF \A i \in DOMAIN order : decoded[i].err = OK
                  THEN [err |-> OK, vals |-> [i \in DOMAIN order |-> decoded[i].val]]
                  ELSE [err |-> ErrInvalidPageToken, vals |-> <<>>]

---------------------------------------------------------------------------
\* Not positive means the default; the maximum caps either.
PageSize(schema, requested) ==
    LET size == IF requested <= 0 THEN schema.defaultPageSize ELSE requested
    IN  IF size > schema.maxPageSize THEN schema.maxPageSize ELSE size

\* A request is [size, filter, orderBy, token].
BuildPlan(schema, req, now) ==
    LET failed(err) == [err |-> err, size |-> 0, order |-> <<>>, vals |-> <<>>]
        effective == EffectiveOrderBy(schema, req.orderBy)
        decoded   == DecodeToken(req.token)
        invalid   == ValidateToken(decoded.tok, schema, req.filter, now)
        cursor    == DecodeCursorValues(schema, decoded.tok, effective.fields)
    IN  IF effective.err # OK THEN failed(ErrInvalidOrderBy)
        ELSE IF decoded.err # OK THEN failed(ErrInvalidPageToken)
        ELSE IF invalid # OK THEN failed(invalid)
        ELSE IF cursor.err # OK THEN failed(ErrInvalidPageToken)
        ELSE [err |-> OK, size |-> PageSize(schema, req.size),
              order |-> effective.fields, vals |-> cursor.vals]
===============================================================================
