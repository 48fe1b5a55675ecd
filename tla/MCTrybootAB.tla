----------------------------- MODULE MCTrybootAB -----------------------------
(***************************************************************************)
(* The instances of TrybootAB that TLC checks: a factory image, an update  *)
(* for the same board, and one for the same platform built for another     *)
(* architecture.                                                           *)
(***************************************************************************)
EXTENDS TrybootABInv

CONSTANTS v1, v2, alien

MCImages == {v1, v2, alien}
MCPlatformOf == [img \in MCImages |-> "rpi0_2"]
MCArchOf == [img \in MCImages |-> IF img = alien THEN "aarch64" ELSE "arm"]
=============================================================================
