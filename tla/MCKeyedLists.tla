----------------------------- MODULE MCKeyedLists -----------------------------
(* The instances of Pagination whose schemas have the unique key in their    *)
(* tie-breaker, as PaginationProofs assumes of every instance.               *)
EXTENDS MCPagination

ASSUME KeyedSchemas
===============================================================================
