----------------------------- MODULE MCPagination -----------------------------
(* Small instances of Pagination. *)
EXTENDS Pagination, TLC

MCColumns == {"id", "rank"}

field(kind) == [kind |-> kind, disabled |-> FALSE, wired |-> TRUE]
asc(path)  == [path |-> path, dir |-> Asc]
desc(path) == [path |-> path, dir |-> Desc]

\* The texts of the model's integers are texts of floats, and the other way round.
MCReads(kind, s) == {kind, s.kind} = {"int", "float"}

schemaOf(rank, rt, default, tie, defaultSize, maxSize) ==
    [resourceType |-> rt, fields |-> ("id" :> field("int")) @@ ("rank" :> field(rank)),
     defaultOrder |-> default, tieBreaker |-> tie,
     defaultPageSize |-> defaultSize, maxPageSize |-> maxSize]

schema(rt, default, tie, defaultSize, maxSize) ==
    schemaOf("int", rt, default, tie, defaultSize, maxSize)

\* Two versions of the schema of items during a rollout that turns the
\* tie-breaker round, lowers the page size and takes ranks for floats, and
\* another resource.
RolloutSchema ==
    ("v1" :> schema("item", <<asc("rank")>>, <<asc("id")>>, 1, 2)) @@
    ("v2" :> schemaOf("float", "item", <<asc("rank")>>, <<desc("id")>>, 1, 1)) @@
    ("other" :> schema("user", <<>>, <<asc("id")>>, 1, 2))

\* One version of one schema.
OneSchema == "v1" :> schema("item", <<desc("rank")>>, <<asc("id")>>, 1, 2)

\* A message that declares neither default_order_by nor tie_breaker.
UnorderedSchema == "v1" :> schema("item", <<>>, <<>>, 1, 2)

\* A schema built WithMaxPageSize(math.MaxInt32).
UncappedSchema == "v1" :> schema("item", <<>>, <<asc("id")>>, 1, MaxInt)

MCMatches(filter, row) == row["rank"] >= filter

row(id, rank) == [c \in MCColumns |-> IF c = "id" THEN id ELSE rank]
Items == { {row(0, 1), row(1, 0), row(2, 1)}, {row(0, 0), row(1, 1), row(2, 2)} }
RolloutTables == { ("item" :> items) @@ ("user" :> {row(0, 0), row(1, 1)}) : items \in Items }
OneTable == { "item" :> items : items \in Items }

\* By default; ascending; ascending and with the tie-breaker named, which is the
\* same order to both versions; descending, which the tie-breaker mixes; twice.
MCOrderBys == { <<>>, << <<"rank">> >>, << <<"rank">>, <<"id">> >>, << <<"rank", "desc">> >>,
                << <<"rank">>, <<"rank", "desc">> >> }
MCFilters == { <<>>, <<1>> }
===============================================================================
