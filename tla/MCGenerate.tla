------------------------------ MODULE MCGenerate ------------------------------
(* Small sets of messages for Generate. *)
EXTENDS Generate

Id == <<"id">>
Name == <<"name">>
Ref == <<"ref">>
Tenant == <<"tenant">>
User == <<"user">>

Column(name, field, unique, nullable, orderable) ==
    [name |-> name, field |-> field, unique |-> unique, nullable |-> nullable,
     default |-> FALSE, check |-> FALSE, orderable |-> orderable, paths |-> <<>>, gin |-> FALSE]
Synthesized(name) == Column(name, NoField, FALSE, FALSE, FALSE)

Reference(message, field, actions, backing) ==
    << [column |-> Ref, message |-> message, field |-> field, actions |-> actions,
        backing |-> backing, table |-> <<>>, target |-> <<>>, local |-> <<>>] >>

Index(table, columns, unique, where) ==
    [name |-> <<"idx">> \o table \o columns[1], columns |-> columns,
     unique |-> unique, where |-> where]

\* A message with an id, a name and a reference; its key is the scope and the id.
Message(fqn, dir, file, table, scope) ==
    [fqn |-> fqn, dir |-> dir, file |-> file, table |-> table, scope |-> scope,
     columns |-> [k \in DOMAIN scope |-> Synthesized(scope[k])]
                 \o << Column(Id, "id", FALSE, FALSE, TRUE),
                       Column(Name, "name", FALSE, FALSE, FALSE),
                       Column(Ref, "ref", FALSE, TRUE, FALSE) >>,
     primaryKey |-> scope \o <<Id>>, partition |-> <<>>,
     defaultOrder |-> <<>>, tieBreaker |-> <<Id>>,
     oneofs |-> <<>>, indexes |-> <<>>, supplementals |-> <<>>, foreignKeys |-> <<>>]

WithUnique(p, names) ==
    [p EXCEPT !.columns =
        [k \in DOMAIN p.columns |-> [p.columns[k] EXCEPT !.unique = p.columns[k].name \in names]]]
WithReference(p, r) == [p EXCEPT !.foreignKeys = r]

Scopes == { <<>>, <<Tenant>> }

\* The referred message: its key, whether its name is unique.
Hubs(scope) ==
    LET hub == Message("hub", 1, 2, <<"hub">>, scope)
        keys == IF scope = <<>> THEN { <<Id>>, <<Id, Name>> }
                ELSE { <<Tenant, Id>>, <<Id, Tenant>>, <<Tenant, Id, Name>> }
    IN { [h EXCEPT !.primaryKey = k, !.partition = IF Len(k) = 3 THEN scope ELSE <<>>] :
            h \in {hub, WithUnique(hub, {Name})}, k \in keys }

\* The referring message: the column it refers to, how, and which indexes it has.
SpokeIndexes ==
    { <<>>, << Index(<<"spoke">>, <<Ref, Name>>, FALSE, FALSE) >>,
      << Index(<<"spoke">>, <<Name, Ref>>, FALSE, FALSE) >> }
Spokes(scope) ==
    { WithUnique([WithReference(Message("spoke", 1, 1, <<"spoke">>, scope),
                                Reference("hub", f, n, b))
                  EXCEPT !.indexes = x], u) :
        f \in {"id", "name"}, n \in { {}, IF scope = <<>> THEN {"SET NULL"} ELSE {} }, b \in BOOLEAN,
        x \in SpokeIndexes, u \in { {}, {Ref} } }

\* A third message refers to the name of the first or to the id of the second or of
\* itself.  If it is scoped to users it has a unique name.
Leaves(scope) ==
    LET leaf == Message("leaf", 1, 3, <<"leaf">>, scope)
    IN { WithReference(leaf, r) :
           r \in { Reference("hub", "name", {}, TRUE), Reference("spoke", "id", {}, TRUE),
                   Reference("leaf", "id", {}, TRUE) } }
       \cup IF scope = <<>> THEN {leaf}
            ELSE { WithReference(WithUnique(Message("leaf", 1, 3, <<"leaf">>, <<Tenant, User>>),
                                            {Name}),
                                 Reference("hub", "name", {}, FALSE)) }

Orders(h, s, l) == { <<h, s, l>>, <<l, s, h>>, <<s, h, l>> }

Candidates(scope) ==
    UNION { Orders(h, s, l) : h \in Hubs(scope), s \in Spokes(scope), l \in Leaves(scope) }

\* A reference that sets a column to null, or to its default, which may be refused.
Actions ==
    { << [WithReference(Message("spoke", 1, 1, <<"spoke">>, <<>>), Reference("hub", "id", a, TRUE))
             EXCEPT !.columns[3].nullable = n, !.columns[3].default = ~n],
         Message("hub", 1, 2, <<"hub">>, <<>>) >> :
        a \in SUBSET {"SET NULL", "SET DEFAULT"}, n \in BOOLEAN }

\* A message with indexed JSON paths, in a column and in a oneof, whose names may
\* meet each other's, an index's or a column's.
Paths == { << << <<"x">> >> >>, << << <<"x">>, <<"gin">> >>, << <<"x", "gin">> >> >>,
           << << <<"gin">> >>, << <<"x">>, <<"unique">> >> >> }
Document ==
    { << [Message("doc", 1, 1, <<"doc">>, <<>>) EXCEPT
            !.columns[2].paths = ps, !.columns[2].gin = g, !.columns[2].check = g,
            !.columns[3].name = <<"name", "x">>, !.columns[3].unique = u,
            !.oneofs = o, !.indexes = x] >> :
        ps \in Paths \cup { <<>> }, g \in BOOLEAN, u \in BOOLEAN,
        o \in { <<>> } \cup
              { << [base |-> b, paths |-> qs] >> : b \in { <<"name">>, <<"name", "x">>, <<"of">> },
                                                  qs \in Paths },
        x \in { <<>>, << Index(<<"doc">>, << <<"name">> >>, FALSE, FALSE) >>,
                << [Index(<<"doc">>, <<Id>>, FALSE, FALSE) EXCEPT
                      !.name = <<"idx", "doc", "name", "gin">>] >> } }

RegularSources ==
    (UNION { Candidates(scope) : scope \in Scopes }) \cup Actions \cup Document

\* Messages of every kind, good and bad: without a scope, with a tenant, with a user;
\* with a key that is not scoped; with a nullable column to sort by, or one that is not
\* orderable; with a name that is too long; referring to the other one, to themselves, to nothing.
Kinds(fqn, other, file, table) ==
    LET of(scope) == Message(fqn, 1, file, table, scope)
        refs == { Reference(other, "id", {}, TRUE), Reference(fqn, "name", {}, TRUE) }
    IN { of(<<>>), WithReference(of(<<>>), Reference("nothing", "id", {}, FALSE)),
         WithReference(of(<<Tenant, User>>), Reference(other, "name", {"SET NULL"}, TRUE)),
         [of(<<Tenant>>) EXCEPT !.primaryKey = <<Id>>],
         [of(<<>>) EXCEPT !.columns[3].orderable = TRUE],
         [of(<<>>) EXCEPT !.defaultOrder = <<Name>>],
         [of(<<>>) EXCEPT !.columns[2].name = <<"a", "long", "name">>, !.columns[2].check = TRUE],
         WithReference([of(<<>>) EXCEPT !.table = table \o <<"x">>], Reference(other, "id", {"SET NULL"}, TRUE)) }
       \cup { WithReference(of(s), r) : s \in { <<>>, <<Tenant>> }, r \in refs }

AnySources ==
    { <<a, b>> : a \in Kinds("a", "b", 1, <<"a">>), b \in Kinds("b", "a", 2, <<"b">>) }
    \cup { << Message("a", 1, 1, <<"a">>, <<>>), Message("b", 1, 2, <<"a">>, <<>>) >>,
           << Message("a", 2, 1, <<"a">>, <<>>), Message("b", 1, 2, <<"a">>, <<>>) >>, <<>> }

GenerateTables == { <<"doc">>, <<"hub">>, <<"spoke">>, <<"leaf">>, <<"a">>, <<"b">>, <<"a", "x">>, <<"b", "x">> }
NoFiles == {}
===============================================================================
