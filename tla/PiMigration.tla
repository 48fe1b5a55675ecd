---------------------------- MODULE PiMigration ----------------------------
(***************************************************************************)
(* A Raspberry Pi with the old (MBR-swap) partitioning, migrated to the    *)
(* tryboot layout by upgrade.old-a or upgrade.old-b while the old system   *)
(* is running, and from its first boot on the life TrybootAB describes.    *)
(*                                                                         *)
(* The partitions of the two layouts overlap.  Both are extents in 512     *)
(* byte blocks, computed as fwup-common.conf does, and formatting or       *)
(* writing an extent ruins whatever of the other layout it reaches.        *)
(***************************************************************************)
EXTENDS TrybootABInv

CONSTANTS
    BOOT_A_PART_COUNT,
    ROOTFS_A_PART_OFFSET,
    ROOTFS_A_PART_COUNT,
    OLD_ROOTFS_A_PART_OFFSET,
    OLD_ROOTFS_A_PART_COUNT,
    OLD_BOOT_PART_COUNT,  \* size of a boot partition of the old layout
    SizeOf,               \* size of the rootfs of each image
    MigrationChecksArch   \* the tasks require the architecture; rpi3_64 only

BOOT_A_PART_OFFSET == 63
BOOT_B_PART_OFFSET == BOOT_A_PART_OFFSET + BOOT_A_PART_COUNT
AUTOBOOT_PART_OFFSET == BOOT_B_PART_OFFSET + BOOT_A_PART_COUNT
AUTOBOOT_PART_COUNT == 32749
EXTENDED_PART_OFFSET == AUTOBOOT_PART_OFFSET + AUTOBOOT_PART_COUNT
RootfsBMutant == ROOTFS_A_PART_OFFSET + ROOTFS_A_PART_COUNT + 1
ROOTFS_B_PART_OFFSET == ROOTFS_A_PART_OFFSET + ROOTFS_A_PART_COUNT
APP_PART_OFFSET == ROOTFS_B_PART_OFFSET + ROOTFS_A_PART_COUNT
OLD_ROOTFS_B_PART_OFFSET == OLD_ROOTFS_A_PART_OFFSET + OLD_ROOTFS_A_PART_COUNT
OLD_APP_PART_OFFSET == OLD_ROOTFS_B_PART_OFFSET + OLD_ROOTFS_A_PART_COUNT

\* fwup puts one boot record per logical partition (rootfs A, rootfs B and
\* application) at the start of the extended one.
EBR_COUNT == 3

ASSUME LayoutAssumption ==
    /\ BOOT_A_PART_COUNT \in Nat \ {0}
    /\ ROOTFS_A_PART_OFFSET \in Nat
    /\ ROOTFS_A_PART_COUNT \in Nat
    /\ OLD_ROOTFS_A_PART_OFFSET \in Nat
    /\ OLD_ROOTFS_A_PART_COUNT \in Nat
    /\ OLD_BOOT_PART_COUNT \in Nat
    /\ EXTENDED_PART_OFFSET + EBR_COUNT <= ROOTFS_A_PART_OFFSET
    /\ MigrationChecksArch \in BOOLEAN

\* assert-size-lte of the file-resource rootfs.img, old and new.
ASSUME SizeAssumption ==
    /\ \A img \in Images : SizeOf[img] \in 1 .. ROOTFS_A_PART_COUNT
    /\ SizeOf[FactoryImage] <= OLD_ROOTFS_A_PART_COUNT

Extent(offset, count) == [offset |-> offset, count |-> count]

Overlap(r, q) ==
    /\ r.offset < q.offset + q.count
    /\ q.offset < r.offset + r.count

AutobootPart == Extent(AUTOBOOT_PART_OFFSET, AUTOBOOT_PART_COUNT)
BootPartMutant(s) == Extent(BOOT_B_PART_OFFSET, BOOT_A_PART_COUNT)
BootPart(s) ==
    Extent(IF s = "a" THEN BOOT_A_PART_OFFSET ELSE BOOT_B_PART_OFFSET,
           BOOT_A_PART_COUNT)
RootfsPart(s) ==
    Extent(IF s = "a" THEN ROOTFS_A_PART_OFFSET ELSE ROOTFS_B_PART_OFFSET,
           ROOTFS_A_PART_COUNT)
RootfsExtent(s, img) == Extent(RootfsPart(s).offset, SizeOf[img])
BootRecords == Extent(EXTENDED_PART_OFFSET, EBR_COUNT)

OldBootPart(s) ==
    Extent(IF s = "a" THEN BOOT_A_PART_OFFSET
                      ELSE BOOT_A_PART_OFFSET + OLD_BOOT_PART_COUNT,
           OLD_BOOT_PART_COUNT)
OldRootfs(s) ==
    Extent(IF s = "a" THEN OLD_ROOTFS_A_PART_OFFSET ELSE OLD_ROOTFS_B_PART_OFFSET,
           SizeOf[FactoryImage])

VARIABLES
    table,      \* the partition table on the disk, "old" or "new"
    oldActive,  \* the slot that the old table names
    oldBoot,    \* the slots whose old boot partition is intact
    oldRootfs,  \* the slots whose old rootfs is intact
    oldData,    \* the application data is intact
    oldUp,      \* the old system is running
    step,       \* next operation of the migration, 0: none under way
    newImg,     \* the image being migrated to
    migrated    \* the board has booted from the new layout

oldDisk == << oldBoot, oldRootfs, oldData >>
migrationVars == << table, oldActive, oldDisk, oldUp, step, newImg, migrated >>
boardVars == << vars, migrationVars >>

\* The slot of the new layout that the migration fills.
NewSlot == Other(oldActive)

\* The operations on a metadata variable, by its key.
Unset(k) == CASE k = "version"      -> "unset version"
              [] k = "platform"     -> "unset platform"
              [] k = "architecture" -> "unset architecture"
              [] k = "uuid"         -> "unset uuid"
Set(k) == CASE k = "version"      -> "set version"
            [] k = "platform"     -> "set platform"
            [] k = "architecture" -> "set architecture"
            [] k = "uuid"         -> "set uuid"

(***************************************************************************)
(* The operations of upgrade.old-a and upgrade.old-b: on-init, the         *)
(* resources in archive order, on-finish.                                  *)
(***************************************************************************)
MigrateOpsMutant ==
    << "unset version", "unset platform", "unset architecture", "unset uuid",
       "mkfs autoboot", "mkfs boot", "autoboot.txt", "boot files",
       "set version", "set platform", "set architecture", "set uuid",
       "validate", "invalidate", "mbr",
       "write rootfs", "rootfs written" >>
MigrateOps ==
    << "unset version", "unset platform", "unset architecture", "unset uuid",
       "mkfs autoboot", "mkfs boot", "autoboot.txt", "boot files",
       "write rootfs", "rootfs written",
       "set version", "set platform", "set architecture", "set uuid",
       "validate", "invalidate", "mbr" >>

\* An old system on slot oldActive; the other slot holds an older version of
\* it, or nothing.
MigrationInit ==
    /\ bootfs = [s \in Slot |-> NoImage]
    /\ rootfs = [s \in Slot |-> NoImage]
    /\ autoboot = "none"
    /\ validated = [s \in Slot |-> None]
    /\ table = "old"
    /\ oldActive \in Slot
    /\ oldBoot \in {Slot, {oldActive}}
    /\ oldRootfs = oldBoot
    /\ meta = [s \in Slot |-> IF s \in oldRootfs THEN MetaOf(FactoryImage)
                                                 ELSE [k \in Key |-> None]]
    /\ running = "none" /\ runImg = NoImage
    /\ param = FALSE /\ try = FALSE
    /\ job = Idle /\ switched = FALSE
    /\ oldData = TRUE
    /\ oldUp = FALSE
    /\ step = 0
    /\ newImg = NoImage
    /\ migrated = FALSE

OldBootable == oldActive \in oldBoot \cap oldRootfs

BootOld ==
    /\ ~ oldUp /\ ~ migrated
    /\ table = "old"
    /\ OldBootable
    /\ oldUp' = TRUE
    /\ UNCHANGED << vars, table, oldActive, oldDisk, step, newImg, migrated >>

\* A power cut, a crash or a reboot, in the middle of a migration or not.
OldDown ==
    /\ oldUp
    /\ oldUp' = FALSE
    /\ step' = 0
    /\ UNCHANGED << vars, table, oldActive, oldDisk, newImg, migrated >>

AbortMigration ==
    /\ step # 0
    /\ step' = 0
    /\ UNCHANGED << vars, table, oldActive, oldDisk, oldUp, newImg, migrated >>

\* require-partition-offset(1, ...) reads the table on the disk.
StartMigration(img) ==
    /\ oldUp
    /\ step = 0
    /\ table = "old"
    /\ meta[oldActive]["platform"] = PlatformOf[img]
    /\ MigrationChecksArch => meta[oldActive]["architecture"] = ArchOf[img]
    /\ step' = 1
    /\ newImg' = img
    /\ UNCHANGED << vars, table, oldActive, oldDisk, oldUp, migrated >>

-----------------------------------------------------------------------------
(***************************************************************************)
(* What writing the extents rs ruins, in either layout.  The application   *)
(* partition reaches to the end of the media.                              *)
(***************************************************************************)
Hits(rs, q) == \E r \in rs : Overlap(r, q)

RuinOld(rs) ==
    /\ oldBoot' = {s \in oldBoot : ~ Hits(rs, OldBootPart(s))}
    /\ oldRootfs' = {s \in oldRootfs : ~ Hits(rs, OldRootfs(s))}
    /\ oldData' = (oldData /\ \A r \in rs : r.offset + r.count <= OLD_APP_PART_OFFSET)

RuinNew(rs) ==
    /\ bootfs' = [s \in Slot |->
                    IF Hits(rs, BootPart(s)) THEN NoImage ELSE bootfs[s]]
    /\ rootfs' = [s \in Slot |->
                    IF rootfs[s] # NoImage /\ Hits(rs, RootfsExtent(s, rootfs[s]))
                    THEN NoImage ELSE rootfs[s]]
    /\ autoboot' = IF Hits(rs, AutobootPart) THEN "none" ELSE autoboot

OnOp(op) == step # 0 /\ MigrateOps[step] = op

NextOp ==
    /\ step' = IF step = Len(MigrateOps) THEN 0 ELSE step + 1
    /\ UNCHANGED << power, job, oldActive, oldUp, newImg, migrated >>

Write(what, r) ==
    /\ OnOp(what)
    /\ RuinOld({r})
    /\ RuinNew({r})

\* Formatting a partition, or beginning to write one.
WriteExtent ==
    /\ \/ Write("mkfs autoboot", AutobootPart)
       \/ Write("mkfs boot", BootPart(NewSlot))
       \/ Write("write rootfs", RootfsExtent(NewSlot, newImg))
    /\ UNCHANGED << validated, meta, table >>
    /\ NextOp

\* Filling what was formatted or begun.
Fill ==
    /\ \/ /\ OnOp("autoboot.txt")
          /\ autoboot' = NewSlot
          /\ UNCHANGED << bootfs, rootfs >>
       \/ /\ OnOp("boot files")
          /\ bootfs' = [bootfs EXCEPT ![NewSlot] = newImg]
          /\ UNCHANGED << rootfs, autoboot >>
       \/ /\ OnOp("rootfs written")
          /\ rootfs' = [rootfs EXCEPT ![NewSlot] = newImg]
          /\ UNCHANGED << bootfs, autoboot >>
    /\ UNCHANGED << validated, meta, table, oldDisk >>
    /\ NextOp

SetVariable ==
    /\ \/ \E k \in Key :
            /\ \/ /\ OnOp(Unset(k))
                  /\ meta' = [meta EXCEPT ![NewSlot] = [@ EXCEPT ![k] = None]]
               \/ /\ OnOp(Set(k))
                  /\ meta' = [meta EXCEPT ![NewSlot] =
                                [@ EXCEPT ![k] = MetaOf(newImg)[k]]]
            /\ UNCHANGED validated
       \/ /\ OnOp("validate")
          /\ validated' = [validated EXCEPT ![NewSlot] = "1"]
          /\ UNCHANGED meta
       \/ /\ OnOp("invalidate")
          /\ validated' = [validated EXCEPT ![oldActive] = "0"]
          /\ UNCHANGED meta
    /\ UNCHANGED << bootfs, rootfs, autoboot, table, oldDisk >>
    /\ NextOp

\* mbr_write, the last operation: the new table and its boot records.
WriteTable ==
    /\ Write("mbr", BootRecords)
    /\ table' = "new"
    /\ UNCHANGED << validated, meta >>
    /\ NextOp

\* The old system updates itself within the old layout, and reboots.
OldUpgrade ==
    /\ oldUp
    /\ step = 0
    /\ table = "old"
    /\ oldActive' = NewSlot
    /\ oldBoot' = oldBoot \cup {NewSlot}
    /\ oldRootfs' = oldRootfs \cup {NewSlot}
    /\ RuinNew({OldBootPart(NewSlot), OldRootfs(NewSlot)})
    /\ meta' = [meta EXCEPT ![NewSlot] = MetaOf(FactoryImage)]
    /\ oldUp' = FALSE
    /\ UNCHANGED << validated, power, job, table, oldData, step, newImg, migrated >>

\* The first boot from the new layout.
BootNew ==
    /\ ~ migrated /\ ~ oldUp
    /\ table = "new"
    /\ Boot
    /\ migrated' = TRUE
    /\ UNCHANGED << table, oldActive, oldDisk, oldUp, step, newImg >>

Live ==
    /\ migrated
    /\ Next
    /\ UNCHANGED migrationVars

MigrationNext ==
    \/ BootOld \/ OldDown \/ AbortMigration \/ OldUpgrade
    \/ \E img \in Images : StartMigration(img)
    \/ WriteExtent \/ Fill \/ SetVariable \/ WriteTable
    \/ BootNew \/ Live

MigrationSpec == MigrationInit /\ [][MigrationNext]_boardVars
-----------------------------------------------------------------------------
(* However often the migration was cut and repeated, once the table is the *)
(* new one the board has a default slot with one complete image, marked    *)
(* validated and described by its metadata, and no other slot to revert to.*)
NewLayoutBoots ==
    table = "new" /\ ~ migrated =>
        /\ autoboot = NewSlot
        /\ Complete(autoboot)
        /\ \A k \in Key : meta[autoboot][k] = MetaOf(rootfs[autoboot])[k]
        /\ validated[autoboot] = "1"
        /\ validated[Other(autoboot)] # "1"

(* From the first boot on the invariant of TrybootAB holds, whichever      *)
(* order of old upgrades and broken-off migrations went before: a flag or  *)
(* a variable left behind does not make the slot of the old system count   *)
(* as one to revert to.                                                    *)
MigratedInv == migrated => IInv

(* The system on the old slot B can be booted until the new table is       *)
(* written ("The MBR still points to the B partition", upgrade.old-a),     *)
(* and the migration be started again.                                     *)
OldSlotBSpared ==
    table = "old" /\ oldActive = "b" =>
        /\ OldBootable
        /\ meta["b"]["platform"] = PlatformOf[FactoryImage]

(* The application partition begins where it did, and nothing of it was    *)
(* written (fwup-common.conf: the offsets "have been cleverly calculated   *)
(* so that APP_PART_OFFSET is the exact same").                            *)
DataKept ==
    /\ oldData
    /\ table = "new" => APP_PART_OFFSET = OLD_APP_PART_OFFSET
=============================================================================
