------------------------------ MODULE MCIrregular ------------------------------
(* Messages the generator accepts and does not handle as its comments say. *)
EXTENDS MCGenerate

A(scope) == Message("a", 1, 1, <<"a">>, scope)
B(scope) == Message("b", 1, 2, <<"b">>, scope)
UniqueNamed(p) == WithUnique(p, {Name})

\* A message refers to its own unique name.
SelfReference ==
    { << WithReference(UniqueNamed(A(<<>>)), Reference("a", "name", {}, TRUE)) >> }

\* A message refers to the unique name of one that is scoped to users.
UserScopedTarget ==
    { << UniqueNamed(B(<<Tenant, User>>)),
         WithReference(A(<<Tenant, User>>), Reference("b", "name", {}, TRUE)) >> }

\* Two messages refer to each other.
MutualReferences ==
    { << WithReference(A(<<>>), Reference("b", "id", {}, TRUE)),
         WithReference(B(<<>>), Reference("a", "id", {}, TRUE)) >> }

\* A partitioned table has a unique column besides the one it is partitioned by.
PartitionedUnique ==
    { << [UniqueNamed(A(<<>>)) EXCEPT !.partition = <<Id>>, !.primaryKey = <<Id, Name>>] >> }

\* An index has the name the index of a foreign key will have.
IndexNamedLikeReference ==
    { << B(<<>>),
         [WithReference(A(<<>>), Reference("b", "id", {}, TRUE)) EXCEPT
             !.indexes = << [name |-> FKIndexName(A(<<>>), Ref), columns |-> <<Name>>,
                             unique |-> FALSE, where |-> FALSE] >>] >> }

\* A message refers to one of another package.
OtherPackage ==
    { << Message("b", 2, 1, <<"b">>, <<>>),
         WithReference(A(<<>>), Reference("b", "id", {}, TRUE)) >> }

\* A message is renamed and keeps its table.
RenamedMessage == { << A(<<>>) >>, << Message("b", 1, 2, <<"a">>, <<>>) >> }

\* Two messages have one file and two tables.
SameFile == { << A(<<>>), Message("b", 1, 1, <<"b">>, <<>>) >> }

\* The second of two messages would sort lists by a column that can be null.
NullableOrder == { << A(<<>>), [B(<<>>) EXCEPT !.columns[3].orderable = TRUE] >> }

\* A message refers to the id of one that is scoped to users.
UserScopedId ==
    { << B(<<Tenant, User>>),
         WithReference(A(<<Tenant, User>>), Reference("b", "id", {}, TRUE)) >> }

\* A reference between tenants' tables sets its columns to null on delete.
TenantSetNull ==
    { << B(<<Tenant>>), WithReference(A(<<Tenant>>), Reference("b", "id", {"SET NULL"}, TRUE)) >> }

\* The only index on a foreign key is partial.
PartialIndex ==
    { << B(<<>>),
         [WithReference(A(<<>>), Reference("b", "id", {}, TRUE)) EXCEPT
             !.indexes = << Index(<<"a">>, <<Ref>>, FALSE, TRUE) >>] >> }

\* The lists of a tenant's messages break ties by the tenant.
TenantTieBreaker == { << [A(<<Tenant>>) EXCEPT !.tieBreaker = <<Id, Tenant>>] >> }

\* The names of a table and of a column, put together, are those of another table
\* and of its column.
NamesAcrossTables ==
    { << [UniqueNamed(A(<<>>)) EXCEPT !.columns[2].name = <<"x", "name">>],
         WithUnique(Message("b", 1, 2, <<"a", "x">>, <<>>), {Name}) >> }
===============================================================================
