------------------------------ MODULE MCFilter ------------------------------
(* A table with a column of every kind, rows with and without NULLs, and the *)
(* comparisons of every field with every operator and the literals that     *)
(* matter for it, those of other kinds included.                            *)
(* The characters are those the translation treats specially and two        *)
(* letters, one of them in both cases.                                      *)
EXTENDS Filter

MCCollation == <<"%", "_", "\\", "a", "A", "b">>
MCLowerCase == [c \in Range(MCCollation) |-> IF c = "A" THEN "a" ELSE c]

MCFields == << "name" >> :> "string" @@ << "spec", "pack" >> :> "string" @@ << "zones" >> :> "array"
         @@ << "live" >> :> "bool" @@ << "ttl" >> :> "integer" @@ << "price" >> :> "float"
         @@ << "at" >> :> "time" @@ << "blob" >> :> "other"

Row(name, pack, zones, live, ttl, price, at) ==
  << "name" >> :> name @@ << "spec", "pack" >> :> pack @@ << "zones" >> :> zones @@ << "live" >> :> live
    @@ << "ttl" >> :> ttl @@ << "price" >> :> price @@ << "at" >> :> at @@ << "blob" >> :> 0

MCRows == {
  Row(<<"a", "A">>, <<"a">>, <<<<"a">>>>, TRUE, 1, 1, 1),
  Row(<<"a", "%", "b">>, <<"A">>, <<>>, FALSE, 2, 2, 2),
  Row(<<"a", "\\", "b">>, NULL, <<<<"b">>, <<"a">>>>, NULL, 3, 3, NULL),
  Row(<<"b", "_">>, <<"b">>, NULL, TRUE, NULL, NULL, 3),
  Row(NULL, <<"%">>, <<NULL, <<"b">>>>, FALSE, 2, 1, 1),
  Row(<<>>, <<>>, <<NULL>>, TRUE, 1, 2, 2)}

Const(type, value) == [kind |-> "const", type |-> type, value |-> value]
Ident(name) == [kind |-> "ident", name |-> name]
Text(s) == Const("string", s)

Field(path) == IF Len(path) = 1 THEN Ident(path[1])
               ELSE [kind |-> "select", base |-> Ident(path[1]), fields |-> Tail(path)]

AllFns == {"=", "!=", "<", "<=", ">", ">=", ":"}

Needles == {<<>>, <<"a">>, <<"A">>, <<"%">>, <<"\\">>, <<"\\", "b">>, <<"_">>, <<"%", "b">>}

Literals == [string |-> {Text(s) : s \in Needles} \cup {Const("int", 1)},
           array |-> {Text(<<"a">>), Text(<<"b">>), Const("int", 1)},
           bool |-> {Ident("true"), Ident("false"), Const("bool", TRUE), Text(<<"a">>)},
           integer |-> {Const("int", 2), Const("double", 2), Call("duration", <<Text(<<"a">>)>>),
                        Call("duration", <<Text(<<"b">>)>>), Call("timestamp", <<Text(<<"a">>)>>), Call("duration", <<>>)},
           float |-> {Const("int", 2), Const("double", 1), Const("uint", 2), Text(<<"a">>)},
           time |-> {Call("timestamp", <<Text(<<"a">>)>>), Call("timestamp", <<Const("int", 1)>>), Text(<<"a">>)},
           other |-> {Text(<<"a">>), Const("int", 1)}]

Null == {Const("null", "null"), Ident("null")}

MCComparisons ==
  {Call(fn, <<Field(path), e>>) : fn \in AllFns, path \in DOMAIN MCFields, e \in Null}
    \cup (UNION {{Call(fn, <<Field(path), e>>) : fn \in AllFns, e \in Literals[MCFields[path]]} : path \in DOMAIN MCFields})
    \cup {Call("matches", <<Field(<<"name">>), Text(<<"a">>)>>), Call("=", <<Field(<<"name">>)>>),
          Call("=", <<Text(<<"a">>), Text(<<"a">>)>>), Field(<<"live">>), Call("=", <<Field(<<"name", "a">>), Text(<<"a">>)>>),
          Call("=", <<Field(<<"spec", "">>), Text(<<"a">>)>>)}

MCTerms == {Call("!=", <<Field(<<"zones">>), Text(<<"a">>)>>), Call(">", <<Field(<<"ttl">>), Const("int", 2)>>),
            Call("<", <<Field(<<"live">>), Ident("true")>>)}

MCDurations == <<"a">> :> 2
MCTimestamps == <<"a">> :> 2
=============================================================================
