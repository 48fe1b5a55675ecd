------------------------------ MODULE MCGrubAB ------------------------------
(***************************************************************************)
(* The instances of GrubAB that TLC checks: a factory image, an update for *)
(* the same board, and an update for the same platform built for another   *)
(* architecture.                                                           *)
(***************************************************************************)
EXTENDS GrubABInv

CONSTANTS v1, v2, alien

MCImages == {v1, v2, alien}
MCPlatformOf == [img \in MCImages |-> "board"]
MCArchOf == [img \in MCImages |-> IF img = alien THEN "foreign" ELSE "native"]
=============================================================================
