--------------------------------- MODULE MCAny ---------------------------------
(* The instance of Generate whose sources are as GenerateProofs assumes them for  *)
(* what it says of the files and of the list schemas.                         *)
EXTENDS MCGenerate

ASSUME DistinctFiles /\ OrderedByFields
===============================================================================
