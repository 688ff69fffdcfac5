--------------------------- MODULE MCCRDStateStore ---------------------------
(* Two clients of a small store for TLC.                                   *)
EXTENDS CRDStateStore, TLC

CONSTANTS a, b, nameOfA, nameOfB

MCNameOf == (a :> nameOfA) @@ (b :> nameOfB)
==============================================================================
