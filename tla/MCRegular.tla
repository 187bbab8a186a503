------------------------------- MODULE MCRegular -------------------------------
(* The instance of Generate whose sources are as GenerateProofs assumes them for  *)
(* what it says of the database.                                              *)
EXTENDS MCGenerate

ASSUME TenantScopedTargets /\ WholeIndexes /\ SettledScopes
ASSUME LocalReferences /\ AcyclicReferences /\ SelfReferencesByKey
ASSUME DistinctFiles /\ SettledFiles /\ DistinctNames /\ PartitionsInUniques
===============================================================================
