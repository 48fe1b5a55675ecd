----------------------------- MODULE MCGrubBoard -----------------------------
(***************************************************************************)
(* GrubBoard with the factory image and one update.                        *)
(***************************************************************************)
EXTENDS GrubBoardInv

CONSTANTS v1, v2

MCImages == {v1, v2}
MCPlatformOf == [img \in MCImages |-> "rubik_pi3"]
MCArchOf == [img \in MCImages |-> "aarch64"]
=============================================================================
