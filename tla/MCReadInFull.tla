----------------------------- MODULE MCReadInFull -----------------------------
(* The instance of DriftCheck whose shapes are as DriftCheckProofs assumes     *)
(* them for what it says of the verdict ok.                                  *)
EXTENDS MCDriftCheck

ASSUME ReadInFull
===============================================================================
