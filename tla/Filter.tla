-------------------------------- MODULE Filter --------------------------------
(****************************************************************************)
(* pkg/aip/jet/filter.go: an AIP-160 filter of a list request becomes a     *)
(* condition of the SELECT, and the query returns the rows for which the    *)
(* condition is true.                                                       *)
(*                                                                          *)
(* The parser is another project's.  What it hands over is a tree:          *)
(*   [kind |-> "call", fn, args], [kind |-> "ident", name],                 *)
(*   [kind |-> "select", base, fields], the fields taken of a base in turn, *)
(*   [kind |-> "const", type, value].                                       *)
(* A dotted field is the sequence of its names.  The connectives of the     *)
(* tree are kept as a table of nodes, each after those below it, and their  *)
(* arguments are indices of that table.                                     *)
(*                                                                          *)
(* A condition is the truth value it has on each row.  What may fail        *)
(* returns <<>> (ErrUnsupportedFilter) or << result >>.                     *)
(****************************************************************************)
EXTENDS FilterSQL, SequencesExt

CONSTANTS Fields,       \* the FilterFields: field path -> kind of expression
          Rows,         \* the rows of the table, functions of the field paths
          Comparisons,  \* the comparisons clients write, as the parser hands them over
          Terms,        \* those they add to a filter
          Durations,    \* time.ParseDuration: text -> nanoseconds
          Timestamps,   \* time.Parse(RFC3339Nano): text -> instant
          MaxNodes      \* the most nodes in the tree of a filter

Connectives == {"AND", "OR", "NOT"}

IsConnective(e) == e.kind = "call" /\ e.fn \in Connectives

(* A constant of the parser, or a value of a column, is of its type. *)
Typed(type, value) ==
  /\ type = "string" => value \in Seq(Characters)
  /\ type \in {"int", "uint", "double", "integer", "float", "time"} => value \in Int

ASSUME FilterAssumption ==
  /\ MaxNodes \in Nat /\ Terms \subseteq Comparisons
  /\ \A e \in Comparisons : ~IsConnective(e)
  /\ \A e \in Comparisons : e.kind = "call" =>
       /\ e.args \in Seq(Range(e.args))
       /\ \A i \in DOMAIN e.args : e.args[i].kind = "const" => Typed(e.args[i].type, e.args[i].value)

ASSUME RowsAssumption ==
  \A row \in Rows : /\ DOMAIN row = DOMAIN Fields
                    /\ \A path \in DOMAIN row : row[path] = NULL \/ Typed(Fields[path], row[path])

ASSUME ParsedAssumption == \A parsed \in {Durations, Timestamps} : \A text \in DOMAIN parsed : parsed[text] \in Int

VARIABLES form,      \* what the text of the request is
          nodes,     \* the tree it parses to
          tops,      \* the nodes that are under no other yet
          condition, \* what FilterToCondition returned
          selected,  \* the rows of the answer
          pc

vars == <<form, nodes, tops, condition, selected, pc>>

NoPredicate == [row \in Rows |-> "true"]

Call(fn, args) == [kind |-> "call", fn |-> fn, args |-> args]

(****************************************************************************)
(* Literals.                                                                *)
(****************************************************************************)
IsNullLiteral(e) == \/ e.kind = "const" /\ e.type = "null"
                    \/ e.kind = "ident" /\ e.name = "null"

ConstOf(e, types) == IF e.kind = "const" /\ e.type \in types THEN <<e.value>> ELSE <<>>

StringLiteral(e) == ConstOf(e, {"string"})

BoolLiteral(e) == IF e.kind = "ident" /\ e.name \in {"true", "false"}
                  THEN <<e.name = "true">> ELSE ConstOf(e, {"bool"})

ParsedCall(e, fn, parsed) ==
  IF e.kind # "call" \/ e.fn # fn \/ Len(e.args) # 1 THEN <<>>
  ELSE LET text == StringLiteral(e.args[1])
       IN IF text = <<>> \/ text[1] \notin DOMAIN parsed THEN <<>> ELSE <<parsed[text[1]]>>

IntegerLiteral(e) == IF e.kind = "call" THEN ParsedCall(e, "duration", Durations)
                     ELSE ConstOf(e, {"int"})

FloatLiteral(e) == ConstOf(e, {"double", "int", "uint"})

TimestampLiteral(e) == ParsedCall(e, "timestamp", Timestamps)

(****************************************************************************)
(* Comparisons.                                                             *)
(****************************************************************************)
(* One strings.ReplaceAll of a character by itself escaped. *)
EscapeChar(s, c) == FlattenSeq([i \in DOMAIN s |-> IF s[i] = c THEN <<"\\", c>> ELSE <<s[i]>>])

\* Mutant: the escape character is escaped last.
EscapeLikeLate(s) == EscapeChar(EscapeChar(EscapeChar(s, "%"), AnyChar), "\\")

EscapeLike(s) == EscapeChar(EscapeChar(EscapeChar(s, "\\"), "%"), AnyChar)

Orderings == {"<", "<=", ">", ">="}

(* A plain comparison, for the operators a kind of expression admits. *)
Plain(fn, path, kind, lit, fns) ==
  IF lit = <<>> \/ fn \notin fns THEN <<>>
  ELSE << [row \in Rows |-> Compare(fn, kind, row[path], lit[1])] >>

HasText(value, lit) == IF value = NULL THEN "unknown"
                        ELSE Known(Like(Lower(value), <<"%">> \o EscapeLike(Lower(lit)) \o <<"%">>))

StringOp(fn, path, e) ==
  LET lit == StringLiteral(e)
  IN IF fn = ":" /\ lit # <<>> THEN << [row \in Rows |-> HasText(row[path], lit[1])] >>
     ELSE Plain(fn, path, "string", lit, {"=", "!="} \cup Orderings)

\* Mutant: the condition is not negated.
NegationForgotten(arg) == arg

Negation(arg) == IF arg = <<>> THEN <<>> ELSE << [row \in Rows |-> NotSQL(arg[1][row])] >>

StringArrayOp(fn, path, e) ==
  LET lit  == StringLiteral(e)
      elem == << [row \in Rows |-> EqualsAny(row[path], lit[1])] >>
  IN IF lit = <<>> THEN <<>>
     ELSE CASE fn \in {"=", ":"} -> elem
            [] fn = "!="         -> Negation(elem)
            [] OTHER             -> <<>>

ApplyComparator(fn, path, kind, e) ==
  IF IsNullLiteral(e)
  THEN CASE fn = "="  -> << [row \in Rows |-> Known(row[path] = NULL)] >>
         [] fn = "!=" -> << [row \in Rows |-> Known(row[path] # NULL)] >>
         [] OTHER     -> <<>>
  ELSE CASE kind = "array"   -> StringArrayOp(fn, path, e)
         [] kind = "string"  -> StringOp(fn, path, e)
         [] kind = "bool"    -> Plain(fn, path, kind, BoolLiteral(e), {"=", "!="})
         [] kind = "integer" -> Plain(fn, path, kind, IntegerLiteral(e), {"=", "!="} \cup Orderings)
         [] kind = "float"   -> Plain(fn, path, kind, FloatLiteral(e), {"=", "!="} \cup Orderings)
         [] kind = "time"    -> Plain(fn, path, kind, TimestampLiteral(e), {"=", "!="} \cup Orderings)
         [] OTHER            -> <<>>

FlattenIdent(e) ==
  CASE e.kind = "ident" -> << <<e.name>> >>
    [] e.kind = "select" /\ e.base.kind = "ident" /\ "" \notin Range(e.fields) ->
         << <<e.base.name>> \o e.fields >>
    [] OTHER -> <<>>

Comparison(fn, args) ==
  IF Len(args) # 2 THEN <<>>
  ELSE LET path == FlattenIdent(args[1])
       IN IF path = <<>> \/ path[1] \notin DOMAIN Fields THEN <<>>
          ELSE ApplyComparator(fn, path[1], Fields[path[1]], args[2])

(****************************************************************************)
(* The translation of a tree.                                               *)
(****************************************************************************)
(* The loop of andOf and orOf over terms that translate. *)
Joined(fn, terms) ==
  LET acc[i \in 0 .. Len(terms)] ==
        CASE i = 0  -> NoPredicate
          [] i = 1  -> terms[1][1]
          [] OTHER  -> [row \in Rows |->
                         IF fn = "AND" THEN AndSQL(acc[i - 1][row], terms[i][1][row])
                                       ELSE OrSQL(acc[i - 1][row], terms[i][1][row])]
  IN acc[Len(terms)]

\* Mutant: a term that cannot be translated is left out.
JoinSkipping(fn, terms) == << Joined(fn, SelectSeq(terms, LAMBDA t : t # <<>>)) >>

(* andOf and orOf: the first term that cannot be translated ends it. *)
Join(fn, terms) ==
  IF \E i \in DOMAIN terms : terms[i] = <<>> THEN <<>> ELSE << Joined(fn, terms) >>

(* The translation of a node, given those of the nodes below it. *)
Translate(e, below) ==
  IF e.kind # "call" THEN <<>>
  ELSE CASE e.fn \in {"AND", "OR"} -> Join(e.fn, [k \in DOMAIN e.args |-> below[e.args[k]]])
         [] e.fn = "NOT" -> IF Len(e.args) # 1 THEN <<>> ELSE Negation(below[e.args[1]])
         [] e.fn \in {"=", "!=", ":"} \cup Orderings -> Comparison(e.fn, e.args)
         [] OTHER -> <<>>

Translations(tree) ==
  LET translated[i \in DOMAIN tree] == Translate(tree[i], translated) IN translated

FilterToCondition(what, tree) ==
  CASE what = "blank" -> <<NoPredicate>>
    [] what \in {"tooLong", "malformed"} -> <<>>
    [] OTHER -> Translations(tree)[Len(tree)]

Selects(c, row) == c[row] = "true"

(****************************************************************************)
(* A client's request.                                                      *)
(****************************************************************************)
Init ==
  /\ \/ form = "tree" /\ \E e \in Comparisons : nodes = <<e>> /\ tops = <<1>>
     \/ form \in {"blank", "tooLong", "malformed"} /\ nodes = <<>> /\ tops = <<>>
  /\ condition = <<>> /\ selected = {} /\ pc = "writing"

(* The client adds a comparison to its filter. *)
AddTerm ==
  /\ pc = "writing" /\ form = "tree" /\ Len(nodes) + 1 < MaxNodes
  /\ \E e \in Terms : nodes' = Append(nodes, e)
  /\ tops' = Append(tops, Len(nodes'))
  /\ UNCHANGED <<form, condition, selected, pc>>

(* It negates the last part of the filter, or joins the last ones. *)
Connect ==
  /\ pc = "writing" /\ form = "tree" /\ Len(nodes) < MaxNodes
  /\ \E fn \in Connectives, kept \in 0 .. Len(tops) - 1 :
       /\ fn = "NOT" <=> kept = Len(tops) - 1
       /\ nodes' = Append(nodes, Call(fn, SubSeq(tops, kept + 1, Len(tops))))
       /\ tops' = Append(SubSeq(tops, 1, kept), Len(nodes'))
  /\ UNCHANGED <<form, condition, selected, pc>>

(* The server translates the filter; a filter it cannot translate fails the request. *)
TranslateFilter ==
  /\ pc = "writing" /\ Len(tops) < 2
  /\ condition' = FilterToCondition(form, nodes)
  /\ pc' = IF condition' = <<>> THEN "refused" ELSE "translated"
  /\ UNCHANGED <<form, nodes, tops, selected>>

(* The query returns the rows for which the condition is true. *)
RunQuery ==
  /\ pc = "translated"
  /\ selected' = {row \in Rows : Selects(condition[1], row)}
  /\ pc' = "answered"
  /\ UNCHANGED <<form, nodes, tops, condition>>

Next == AddTerm \/ Connect \/ TranslateFilter \/ RunQuery

Spec == Init /\ [][Next]_vars

(****************************************************************************)
(* What a filter means: the operators and literals the header of the file   *)
(* lists, kind by kind.                                                     *)
(****************************************************************************)
Relates(fn, kind, v, w) ==
  CASE fn = "=" -> v = w
    [] fn = "<" -> IF kind = "string" THEN TextLess(v, w) ELSE v < w
    [] fn = ">" -> IF kind = "string" THEN TextLess(w, v) ELSE w < v

(* needle occurs in text, whatever the case. *)
Occurs(text, needle) ==
  \E n \in 0 .. Len(text) - Len(needle) : Lower(SubSeq(text, n + 1, n + Len(needle))) = Lower(needle)

Literal(kind, e) == CASE kind \in {"string", "array"} -> StringLiteral(e)
                      [] kind = "bool"    -> BoolLiteral(e)
                      [] kind = "integer" -> IntegerLiteral(e)
                      [] kind = "float"   -> FloatLiteral(e)
                      [] kind = "time"    -> TimestampLiteral(e)
                      [] OTHER            -> <<>>

Operators(kind, e) ==
  IF IsNullLiteral(e) THEN {"=", "!="}
  ELSE CASE kind = "string" -> {"=", "!=", ":"} \cup Orderings
         [] kind = "array"  -> {"=", "!=", ":"}
         [] kind = "bool"   -> {"=", "!="}
         [] OTHER           -> {"=", "!="} \cup Orderings

(* The row satisfies the comparison / contradicts it; neither when a NULL hides the answer. *)
Says(fn, path, e, row) ==
  LET kind == Fields[path] lit == Literal(kind, e)[1] value == row[path]
  IN IF IsNullLiteral(e) THEN (value = NULL) = (fn = "=")
     ELSE /\ value # NULL
          /\ IF kind = "array"
             THEN IF fn = "!=" THEN \A i \in DOMAIN value : value[i] \notin {lit, NULL}
                               ELSE \E i \in DOMAIN value : value[i] = lit
             ELSE CASE fn = ":"   -> Occurs(value, lit)
               [] fn = "!="       -> ~Relates("=", kind, value, lit)
               [] fn \in {"<=", ">="} -> ~Relates(IF fn = "<=" THEN ">" ELSE "<", kind, value, lit)
               [] OTHER           -> Relates(fn, kind, value, lit)

Denies(fn, path, e, row) ==
  LET opposite == [x \in {"=", "!=", "<", "<=", ">", ">="} |->
                     CASE x = "=" -> "!=" [] x = "!=" -> "=" [] x = "<" -> ">="
                       [] x = "<=" -> ">" [] x = ">" -> "<=" [] x = ">=" -> "<"]
  IN IF fn # ":" THEN Says(opposite[fn], path, e, row)
     ELSE IF Fields[path] = "array" THEN Says("!=", path, e, row)
     ELSE row[path] # NULL /\ ~Says(fn, path, e, row)

(* Whether the row satisfies each node (TRUE), and whether it contradicts it (FALSE). *)
Agreements(row) ==
  LET agrees[i \in DOMAIN nodes] ==
        LET e == nodes[i]
        IN [yes \in BOOLEAN |->
             CASE e.fn = "NOT" -> agrees[e.args[1]][~yes]
               [] e.fn \in {"AND", "OR"} ->
                    IF (e.fn = "AND") = yes THEN \A k \in DOMAIN e.args : agrees[e.args[k]][yes]
                                            ELSE \E k \in DOMAIN e.args : agrees[e.args[k]][yes]
               [] OTHER -> LET path == FlattenIdent(e.args[1])[1]
                           IN IF yes THEN Says(e.fn, path, e.args[2], row) ELSE Denies(e.fn, path, e.args[2], row)]
  IN agrees

Satisfies(row) == form = "blank" \/ Agreements(row)[Len(nodes)][TRUE]

(* The comparison is one the header lists. *)
Listed(e) ==
  /\ e.kind = "call" /\ e.fn \in {"=", "!=", ":"} \cup Orderings /\ Len(e.args) = 2
  /\ LET path == FlattenIdent(e.args[1])
     IN /\ path # <<>> /\ path[1] \in DOMAIN Fields
        /\ e.fn \in Operators(Fields[path[1]], e.args[2])
        /\ IsNullLiteral(e.args[2]) \/ Literal(Fields[path[1]], e.args[2]) # <<>>

(* The filter is blank, or every comparison of it is listed. *)
Meaningful == \/ form = "blank"
              \/ form = "tree" /\ \A i \in DOMAIN nodes : IsConnective(nodes[i]) \/ Listed(nodes[i])

(****************************************************************************)
(* Properties.                                                              *)
(****************************************************************************)
(* The rows of an answer are those that satisfy the filter: a comparison    *)
(* with NULL is neither true nor false and stays so under NOT, AND and OR,  *)
(* `:` finds its text whatever metacharacters it has (translate,            *)
(* applyComparator, escapeLike).                                            *)
AnswersTheFilter == pc = "answered" => selected = {row \in Rows : Satisfies(row)}

(* A filter is refused exactly if it is no filter or one of its comparisons *)
(* is not one the file's header lists: no part of a filter is ever left out *)
(* of the condition ("returning an error beats silently returning the wrong *)
(* rows"), and none that is listed is refused.                              *)
RefusesOnlyTheUnlisted == /\ pc = "refused" => ~Meaningful
                          /\ pc = "answered" => Meaningful

HasNull(row) == \E path \in DOMAIN row :
  \/ row[path] = NULL
  \/ Fields[path] = "array" /\ \E i \in DOMAIN row[path] : row[path][i] = NULL

(* A filter and its negation split the table: no row is in both answers,    *)
(* and every row without a NULL is in one of them.                          *)
NegationSplitsTheTable ==
  pc = "answered" /\ form = "tree" =>
    LET negated == Translate(Call("NOT", <<Len(nodes)>>), Translations(nodes))
        others  == {row \in Rows : Selects(negated[1], row)}
    IN /\ selected \cap others = {}
       /\ \A row \in Rows : HasNull(row) \/ row \in selected \cup others
=============================================================================
