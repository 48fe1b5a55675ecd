--------------------------- MODULE PiMigrationInv ---------------------------
(***************************************************************************)
(* The inductive invariant behind the theorems about PiMigration.          *)
(***************************************************************************)
EXTENDS PiMigration

MigrationTypeOK ==
    /\ TypeOK
    /\ table \in {"old", "new"}
    /\ oldActive \in Slot
    /\ oldBoot \in SUBSET Slot
    /\ oldRootfs \in SUBSET Slot
    /\ oldData \in BOOLEAN
    /\ oldUp \in BOOLEAN
    /\ step \in 0 .. 17
    /\ newImg \in Images \cup {NoImage}
    /\ migrated \in BOOLEAN

\* The tasks of TrybootAB wait for the first boot, the migration ends there.
Eras ==
    /\ ~ migrated => /\ job = Idle /\ running = "none" /\ runImg = NoImage
                     /\ ~ param /\ ~ try /\ ~ switched
    /\ migrated => table = "new" /\ ~ oldUp
    /\ table = "new" => step = 0
    /\ step # 0 => oldUp /\ newImg \in Images

\* What the operations already executed have established.
MigrationProgress ==
    /\ step > 7 => autoboot = NewSlot
    /\ step > 8 => bootfs[NewSlot] = newImg
    /\ step > 10 => rootfs[NewSlot] = newImg
    /\ \A i \in 1 .. 4 :
         step > 10 + i => meta[NewSlot][KeyOrder[i]] = MetaOf(newImg)[KeyOrder[i]]
    /\ step > 15 => validated[NewSlot] = "1"
    /\ step > 16 => validated[oldActive] = "0"

(* The inductive invariant of the migration.                               *)
MInv ==
    /\ MigrationTypeOK
    /\ Eras
    /\ MigrationProgress
    /\ NewLayoutBoots
    /\ MigratedInv

(* Where the new layout leaves the old slot B alone.                       *)
SparesOldB ==
    /\ BOOT_A_PART_COUNT <= OLD_BOOT_PART_COUNT
    /\ BOOT_A_PART_OFFSET + 2 * OLD_BOOT_PART_COUNT <= AUTOBOOT_PART_OFFSET
    /\ \A img \in Images :
         ROOTFS_A_PART_OFFSET + SizeOf[img] <= OLD_ROOTFS_B_PART_OFFSET
=============================================================================
