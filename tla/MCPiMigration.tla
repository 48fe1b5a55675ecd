--------------------------- MODULE MCPiMigration ---------------------------
(***************************************************************************)
(* The instances of PiMigration that TLC checks: the old system and two    *)
(* updates, the second of them for the same platform built for another     *)
(* architecture.                                                           *)
(***************************************************************************)
EXTENDS PiMigrationInv

CONSTANTS v1, v2, alien

MCImages == {v1, v2, alien}
MCPlatformOf == [img \in MCImages |-> "rpi4"]
MCArchOf == [img \in MCImages |-> IF img = alien THEN "arm" ELSE "aarch64"]

\* In blocks; 256288 is the distance from the new rootfs A to the old B.
MCSizeOf == [img \in MCImages |-> IF img = v1 THEN 120000 ELSE 256288]
=============================================================================
