------------------------------- MODULE MCOneList -------------------------------
(* The instances of Pagination in which only the age of a token stops a list, *)
(* as TokenProofs assumes: one version of each schema, a page size below the   *)
(* largest int32 and values that all have a cursor encoding.                   *)
EXTENDS MCKeyedLists

ASSUME SteadySchemas
===============================================================================
