-------------------------- MODULE PiMigrationProofs --------------------------
(***************************************************************************)
(* Theorems about PiMigration, for every set of images and every layout    *)
(* that satisfies LayoutAssumption, checked by TLAPS.                      *)
(***************************************************************************)
EXTENDS PiMigrationInv, TrybootABProofs

(* The extents of the new layout are numbers.                              *)
LEMMA LayoutNat ==
    /\ BOOT_A_PART_OFFSET \in Nat /\ BOOT_B_PART_OFFSET \in Nat
    /\ AUTOBOOT_PART_OFFSET \in Nat /\ EXTENDED_PART_OFFSET \in Nat
    /\ ROOTFS_B_PART_OFFSET \in Nat
    /\ OLD_ROOTFS_B_PART_OFFSET \in Nat
    /\ \A img \in Images : SizeOf[img] \in Nat /\ 0 < SizeOf[img]
                           /\ SizeOf[img] <= ROOTFS_A_PART_COUNT
  BY LayoutAssumption, SizeAssumption
     DEF BOOT_A_PART_OFFSET, BOOT_B_PART_OFFSET, AUTOBOOT_PART_OFFSET,
         AUTOBOOT_PART_COUNT, EXTENDED_PART_OFFSET, ROOTFS_B_PART_OFFSET,
         OLD_ROOTFS_B_PART_OFFSET

(* The partitions of the new layout are disjoint: what formats or writes   *)
(* one of them, or the boot records, ruins no other.                       *)
LEMMA NewLayoutDisjoint ==
    ASSUME NEW s \in Slot
    PROVE  /\ ~ Overlap(BootPart(s), AutobootPart)
           /\ ~ Overlap(BootRecords, AutobootPart)
           /\ ~ Overlap(BootRecords, BootPart(s))
           /\ \A img \in Images :
                /\ ~ Overlap(RootfsExtent(s, img), AutobootPart)
                /\ ~ Overlap(RootfsExtent(s, img), BootPart(s))
                /\ ~ Overlap(BootRecords, RootfsExtent(s, img))
  BY LayoutNat, LayoutAssumption
     DEF Overlap, Extent, BootPart, AutobootPart, BootRecords, RootfsExtent, RootfsPart,
         BOOT_A_PART_OFFSET, BOOT_B_PART_OFFSET, AUTOBOOT_PART_OFFSET,
         AUTOBOOT_PART_COUNT, EXTENDED_PART_OFFSET, ROOTFS_B_PART_OFFSET, EBR_COUNT

(* Where each operation stands in the tasks.                               *)
LEMMA OpOrder ==
    ASSUME step \in 0 .. 17
    PROVE  /\ OnOp("mkfs autoboot") => step = 5
           /\ OnOp("mkfs boot") => step = 6
           /\ OnOp("autoboot.txt") => step = 7
           /\ OnOp("boot files") => step = 8
           /\ OnOp("write rootfs") => step = 9
           /\ OnOp("rootfs written") => step = 10
           /\ \A k \in Key : OnOp(Unset(k)) => step \in 1 .. 4
           /\ \A k \in Key : OnOp(Set(k)) => step \in 11 .. 14 /\ k = KeyOrder[step - 10]
           /\ OnOp("validate") => step = 15
           /\ OnOp("invalidate") => step = 16
           /\ OnOp("mbr") => step = 17
           /\ Len(MigrateOps) = 17
  <1>1. /\ Len(MigrateOps) = 17
        /\ MigrateOps[1] = "unset version" /\ MigrateOps[2] = "unset platform"
        /\ MigrateOps[3] = "unset architecture" /\ MigrateOps[4] = "unset uuid"
        /\ MigrateOps[5] = "mkfs autoboot" /\ MigrateOps[6] = "mkfs boot"
        /\ MigrateOps[7] = "autoboot.txt" /\ MigrateOps[8] = "boot files"
        /\ MigrateOps[9] = "write rootfs" /\ MigrateOps[10] = "rootfs written"
        /\ MigrateOps[11] = "set version" /\ MigrateOps[12] = "set platform"
        /\ MigrateOps[13] = "set architecture" /\ MigrateOps[14] = "set uuid"
        /\ MigrateOps[15] = "validate" /\ MigrateOps[16] = "invalidate"
        /\ MigrateOps[17] = "mbr"
    BY DEF MigrateOps
  <1>2. \/ step = 0 \/ step = 1 \/ step = 2 \/ step = 3 \/ step = 4 \/ step = 5
        \/ step = 6 \/ step = 7 \/ step = 8 \/ step = 9 \/ step = 10 \/ step = 11
        \/ step = 12 \/ step = 13 \/ step = 14 \/ step = 15 \/ step = 16 \/ step = 17
    OBVIOUS
  <1>3. /\ OnOp("unset version") => step = 1
        /\ OnOp("unset platform") => step = 2
        /\ OnOp("unset architecture") => step = 3
        /\ OnOp("unset uuid") => step = 4
        /\ OnOp("set version") => step = 11
        /\ OnOp("set platform") => step = 12
        /\ OnOp("set architecture") => step = 13
        /\ OnOp("set uuid") => step = 14
    BY <1>1, <1>2 DEF OnOp
  <1>4. ASSUME NEW k \in Key
        PROVE  /\ OnOp(Unset(k)) => step \in 1 .. 4
               /\ OnOp(Set(k)) => step \in 11 .. 14 /\ k = KeyOrder[step - 10]
    <2>1. CASE k = "version"
      <3>1. Unset(k) = "unset version" /\ Set(k) = "set version"
        BY <2>1 DEF Unset, Set
      <3>2. (OnOp(Unset(k)) => step = 1) /\ (OnOp(Set(k)) => step = 11)
        BY <1>3, <3>1, Zenon DEF OnOp
      <3>3. step = 11 => KeyOrder[step - 10] = k
        BY <2>1, KeyOrderFacts
      <3> QED
        BY <3>2, <3>3
    <2>2. CASE k = "platform"
      <3>1. Unset(k) = "unset platform" /\ Set(k) = "set platform"
        BY <2>2 DEF Unset, Set
      <3>2. (OnOp(Unset(k)) => step = 2) /\ (OnOp(Set(k)) => step = 12)
        BY <1>3, <3>1, Zenon DEF OnOp
      <3>3. step = 12 => KeyOrder[step - 10] = k
        BY <2>2, KeyOrderFacts
      <3> QED
        BY <3>2, <3>3
    <2>3. CASE k = "architecture"
      <3>1. Unset(k) = "unset architecture" /\ Set(k) = "set architecture"
        BY <2>3 DEF Unset, Set
      <3>2. (OnOp(Unset(k)) => step = 3) /\ (OnOp(Set(k)) => step = 13)
        BY <1>3, <3>1, Zenon DEF OnOp
      <3>3. step = 13 => KeyOrder[step - 10] = k
        BY <2>3, KeyOrderFacts
      <3> QED
        BY <3>2, <3>3
    <2>4. CASE k = "uuid"
      <3>1. Unset(k) = "unset uuid" /\ Set(k) = "set uuid"
        BY <2>4 DEF Unset, Set
      <3>2. (OnOp(Unset(k)) => step = 4) /\ (OnOp(Set(k)) => step = 14)
        BY <1>3, <3>1, Zenon DEF OnOp
      <3>3. step = 14 => KeyOrder[step - 10] = k
        BY <2>4, KeyOrderFacts
      <3> QED
        BY <3>2, <3>3
    <2> QED
      BY <2>1, <2>2, <2>3, <2>4 DEF Key
  <1> QED
    BY <1>1, <1>2, <1>4 DEF OnOp

(* The migration fills the slot the old system does not run from.          *)
LEMMA NewSlotFacts ==
    ASSUME oldActive \in Slot
    PROVE  /\ NewSlot \in Slot /\ NewSlot # oldActive /\ Other(NewSlot) = oldActive
           /\ \A s \in Slot : s = NewSlot \/ s = oldActive
  BY SlotFacts DEF NewSlot

(* What ruining extents of the new layout leaves is well typed.            *)
LEMMA RuinTypes ==
    ASSUME TypeOK, NEW rs, RuinNew(rs)
    PROVE  /\ bootfs' \in [Slot -> Images \cup {NoImage}]
           /\ rootfs' \in [Slot -> Images \cup {NoImage}]
           /\ autoboot' \in Slot \cup {"none"}
  BY DEF TypeOK, RuinNew

(* A board ready for its first boot satisfies the invariant of TrybootAB.  *)
LEMMA HandOverInv ==
    ASSUME MigrationTypeOK, Eras, NewLayoutBoots, table = "new", ~ migrated
    PROVE  IInv
  <1>1. /\ oldActive \in Slot /\ autoboot = NewSlot /\ Complete(autoboot)
        /\ validated[autoboot] = "1" /\ validated[Other(autoboot)] # "1"
        /\ job = Idle /\ running = "none"
    BY DEF MigrationTypeOK, Eras, NewLayoutBoots
  <1>2. ValidatedBootable
    BY <1>1, NewSlotFacts DEF ValidatedBootable, Complete, Bootable
  <1>3. FallbackKept
    BY <1>1, NewSlotFacts DEF FallbackKept
  <1> QED
    BY <1>1, <1>2, <1>3
       DEF IInv, MigrationTypeOK, JobShape, JobSlot, RunningIntact, TargetWithdrawn,
           RunningValidated, Idle

(* The initial states.                                                     *)
LEMMA MInvInit == MigrationInit => MInv
  <1> SUFFICES ASSUME MigrationInit PROVE MInv
    OBVIOUS
  <1>1. meta \in [Slot -> [Key -> KeyValue \cup {None}]]
    BY ImagesAssumption, MetaOfFacts DEF MigrationInit
  <1>2. TypeOK
    BY <1>1, IdleJob DEF MigrationInit, TypeOK
  <1>3. /\ oldActive \in Slot /\ oldBoot \in SUBSET Slot /\ oldRootfs = oldBoot
        /\ table = "old" /\ oldData = TRUE /\ oldUp = FALSE /\ step = 0
        /\ newImg = NoImage /\ migrated = FALSE
    BY DEF MigrationInit
  <1>4. MigrationTypeOK
    <2>1. oldData \in BOOLEAN /\ oldUp \in BOOLEAN /\ migrated \in BOOLEAN
      BY <1>3, Zenon
    <2>2. step \in 0 .. 17
      BY <1>3
    <2> QED
      BY <1>2, <1>3, <2>1, <2>2, Zenon DEF MigrationTypeOK
  <1> QED
    BY <1>4 DEF MigrationInit, MInv, Eras, MigrationProgress, NewLayoutBoots, MigratedInv

(* Starting, stopping and the old system's own doings.                     *)
LEMMA MInvOld ==
    ASSUME MInv, \/ BootOld \/ OldDown \/ AbortMigration \/ OldUpgrade
                 \/ \E img \in Images : StartMigration(img)
    PROVE  MInv'
  <1>1. CASE OldUpgrade
    <2>1. oldActive \in Slot /\ NewSlot \in Slot
      BY NewSlotFacts DEF MInv, MigrationTypeOK
    <2>2. meta' \in [Slot -> [Key -> KeyValue \cup {None}]]
      BY <1>1, <2>1, ImagesAssumption, MetaOfFacts
         DEF OldUpgrade, MInv, MigrationTypeOK, TypeOK
    <2>3. /\ bootfs' \in [Slot -> Images \cup {NoImage}]
          /\ rootfs' \in [Slot -> Images \cup {NoImage}]
          /\ autoboot' \in Slot \cup {"none"}
      BY <1>1, RuinTypes DEF OldUpgrade, MInv, MigrationTypeOK
    <2>4. TypeOK'
      BY <1>1, <2>2, <2>3 DEF OldUpgrade, MInv, MigrationTypeOK, TypeOK, power
    <2>5. /\ table' = "old" /\ step' = 0 /\ oldUp' = FALSE /\ oldActive' = NewSlot
          /\ UNCHANGED << power, job, oldData, newImg, migrated >>
      BY <1>1 DEF OldUpgrade
    <2>6. oldBoot' \in SUBSET Slot /\ oldRootfs' \in SUBSET Slot
      BY <1>1, <2>1 DEF OldUpgrade, MInv, MigrationTypeOK
    <2>7. MigrationTypeOK'
      <3>1. oldData' \in BOOLEAN /\ oldUp' \in BOOLEAN /\ migrated' \in BOOLEAN
        BY <2>5, Zenon DEF MInv, MigrationTypeOK
      <3>2. step' \in 0 .. 17
        BY <2>5
      <3>3. newImg' \in Images \cup {NoImage}
        BY <2>5, Zenon DEF MInv, MigrationTypeOK
      <3> QED
        BY <2>1, <2>4, <2>5, <2>6, <3>1, <3>2, <3>3, Zenon DEF MigrationTypeOK
    <2>8. ~ migrated
      BY <1>1 DEF OldUpgrade, MInv, Eras
    <2>9. Eras'
      BY <2>5, <2>8 DEF MInv, Eras, power
    <2> QED
      BY <2>5, <2>7, <2>8, <2>9 DEF MInv, MigrationProgress, NewLayoutBoots, MigratedInv
  <1>2. CASE \/ BootOld \/ OldDown \/ AbortMigration
             \/ \E img \in Images : StartMigration(img)
    <2>11. UNCHANGED << vars, table, oldActive, oldDisk, migrated >>
      BY <1>2 DEF BootOld, OldDown, AbortMigration, StartMigration
    <2>12. step' = 0 \/ step' = 1 \/ (step' = step /\ newImg' = newImg)
      BY <1>2 DEF BootOld, OldDown, AbortMigration, StartMigration
    <2>1. /\ UNCHANGED << vars, table, oldActive, oldDisk, migrated >>
          /\ step' = 0 \/ step' = 1 \/ (step' = step /\ newImg' = newImg)
      BY <2>11, <2>12
    <2>8. step' \in 0 .. 17
      BY <2>1 DEF MInv, MigrationTypeOK
    <2>9. oldUp' \in BOOLEAN /\ newImg' \in Images \cup {NoImage}
      BY <1>2, Zenon
         DEF BootOld, OldDown, AbortMigration, StartMigration, MInv, MigrationTypeOK
    <2>2. UNCHANGED << bootfs, rootfs, autoboot, validated, meta, running, runImg, param,
                       try, job, switched, oldBoot, oldRootfs, oldData >>
      BY <2>1 DEF vars, disk, power, oldDisk
    <2>3. TypeOK'
      BY <2>2, Zenon DEF MInv, MigrationTypeOK, TypeOK
    <2>10. MigrationTypeOK'
      BY <2>1, <2>2, <2>3, <2>8, <2>9, Zenon DEF MInv, MigrationTypeOK
    <2>4. Eras'
      BY <1>2, <2>1, <2>2
         DEF BootOld, OldDown, AbortMigration, StartMigration, MInv, MigrationTypeOK, Eras
    <2>5. MigrationProgress'
      BY <2>1, <2>2 DEF MInv, MigrationTypeOK, MigrationProgress, NewSlot
    <2>6. NewLayoutBoots'
      BY <2>1, <2>2 DEF MInv, NewLayoutBoots, Complete, NewSlot
    <2>7. MigratedInv'
      <3>1. IInv' = IInv
        BY <2>1 DEF vars, disk, power, IInv, TypeOK, JobShape, JobSlot, RunningIntact,
                    ValidatedBootable, Bootable, FallbackKept, TargetWithdrawn,
                    RunningValidated
      <3> QED
        BY <2>1, <3>1 DEF MInv, MigratedInv
    <2> QED
      BY <2>10, <2>4, <2>5, <2>6, <2>7 DEF MInv
  <1> QED
    BY <1>1, <1>2

(* Formatting, or beginning to write, a partition of the new layout.       *)
LEMMA MInvWriteExtent ==
    ASSUME MInv, WriteExtent
    PROVE  MInv'
  <1>1. /\ TypeOK /\ oldActive \in Slot /\ NewSlot \in Slot /\ step \in 0 .. 17
        /\ step # 0 => newImg \in Images
        /\ Eras /\ MigrationProgress
    BY NewSlotFacts DEF MInv, MigrationTypeOK, Eras
  <1>10. PICK r : /\ RuinOld({r}) /\ RuinNew({r})
                 /\ \/ step = 5 \/ step = 6
                    \/ step = 9 /\ r = RootfsExtent(NewSlot, newImg)
    BY <1>1, OpOrder, Zenon DEF WriteExtent, Write
  <1>3. RuinOld({r}) /\ RuinNew({r}) /\ (step = 9 => r = RootfsExtent(NewSlot, newImg))
    BY <1>10
  <1>2. /\ step \in {5, 6, 9} /\ step' = step + 1 /\ newImg \in Images
        /\ UNCHANGED << power, job, oldActive, oldUp, newImg, migrated,
                        validated, meta, table >>
    <2>1. UNCHANGED << power, job, oldActive, oldUp, newImg, migrated,
                       validated, meta, table >>
      BY DEF WriteExtent, NextOp
    <2>2. step' = IF step = 17 THEN 0 ELSE step + 1
      BY <1>1, OpOrder, Zenon DEF WriteExtent, NextOp
    <2> QED
      BY <1>1, <1>10, <2>1, <2>2
  <1>4. ~ migrated /\ table = "old" /\ oldUp
    BY <1>1, <1>2 DEF MInv, MigrationTypeOK, Eras
  <1>5. TypeOK'
    BY <1>1, <1>2, <1>3, RuinTypes DEF TypeOK, power
  <1>6. oldBoot' \in SUBSET Slot /\ oldRootfs' \in SUBSET Slot /\ oldData' \in BOOLEAN
    BY <1>3 DEF RuinOld, MInv, MigrationTypeOK
  <1>7. MigrationTypeOK'
    BY <1>2, <1>5, <1>6 DEF MInv, MigrationTypeOK
  <1>8. Eras'
    BY <1>2, <1>4 DEF MInv, Eras, power
  <1>9. MigrationProgress'
    <2>1. CASE step = 9
      <3>1. autoboot' = autoboot /\ bootfs'[NewSlot] = bootfs[NewSlot]
        BY <2>1, <1>1, <1>2, <1>3, NewLayoutDisjoint DEF RuinNew, Hits
      <3> QED
        BY <2>1, <1>1, <1>2, <3>1 DEF MigrationProgress, NewSlot
    <2>2. CASE step # 9
      BY <2>2, <1>2 DEF MigrationProgress
    <2> QED
      BY <2>1, <2>2
  <1> QED
    BY <1>2, <1>4, <1>7, <1>8, <1>9 DEF MInv, NewLayoutBoots, MigratedInv

(* Filling it.                                                             *)
LEMMA MInvFill ==
    ASSUME MInv, Fill
    PROVE  MInv'
  <1>1. /\ TypeOK /\ oldActive \in Slot /\ NewSlot \in Slot /\ step \in 0 .. 17
        /\ step # 0 => newImg \in Images
        /\ Eras /\ MigrationProgress
    BY NewSlotFacts DEF MInv, MigrationTypeOK, Eras
  <1>3. \/ step = 7 /\ autoboot' = NewSlot /\ UNCHANGED << bootfs, rootfs >>
        \/ /\ step = 8 /\ bootfs' = [bootfs EXCEPT ![NewSlot] = newImg]
           /\ UNCHANGED << rootfs, autoboot >>
        \/ /\ step = 10 /\ rootfs' = [rootfs EXCEPT ![NewSlot] = newImg]
           /\ UNCHANGED << bootfs, autoboot >>
    BY <1>1, OpOrder, Zenon DEF Fill
  <1>2. /\ step \in {7, 8, 10} /\ step' = step + 1 /\ newImg \in Images
        /\ UNCHANGED << power, job, oldActive, oldUp, newImg, migrated,
                        validated, meta, table, oldBoot, oldRootfs, oldData >>
    <2>1. UNCHANGED << power, job, oldActive, oldUp, newImg, migrated,
                       validated, meta, table, oldBoot, oldRootfs, oldData >>
      BY DEF Fill, NextOp, oldDisk
    <2>2. step' = IF step = 17 THEN 0 ELSE step + 1
      BY <1>1, OpOrder, Zenon DEF Fill, NextOp
    <2> QED
      BY <1>1, <1>3, <2>1, <2>2
  <1>4. ~ migrated /\ table = "old" /\ oldUp
    BY <1>1, <1>2 DEF MInv, MigrationTypeOK, Eras
  <1>5. TypeOK'
    BY <1>1, <1>2, <1>3 DEF TypeOK, power
  <1>6. MigrationTypeOK'
    BY <1>2, <1>5 DEF MInv, MigrationTypeOK
  <1>7. Eras'
    BY <1>2, <1>4 DEF MInv, Eras, power
  <1>8. MigrationProgress'
    BY <1>1, <1>2, <1>3 DEF MigrationProgress, NewSlot, TypeOK
  <1> QED
    BY <1>2, <1>4, <1>6, <1>7, <1>8 DEF MInv, NewLayoutBoots, MigratedInv

(* The metadata of the new slot is complete and its flag set before the    *)
(* old slot's flag is taken away.                                          *)
LEMMA MInvSetVariable ==
    ASSUME MInv, SetVariable
    PROVE  MInv'
  <1>1. /\ TypeOK /\ oldActive \in Slot /\ NewSlot \in Slot /\ step \in 0 .. 17
        /\ step # 0 => newImg \in Images
        /\ Eras /\ MigrationProgress
    BY NewSlotFacts DEF MInv, MigrationTypeOK, Eras
  <1>2. \/ \E k \in Key : /\ step \in 1 .. 4 /\ UNCHANGED validated
                          /\ meta' = [meta EXCEPT ![NewSlot] = [@ EXCEPT ![k] = None]]
        \/ \E k \in Key : /\ step \in 11 .. 14 /\ k = KeyOrder[step - 10]
                          /\ UNCHANGED validated
                          /\ meta' = [meta EXCEPT ![NewSlot] =
                                         [@ EXCEPT ![k] = MetaOf(newImg)[k]]]
        \/ /\ step = 15 /\ UNCHANGED meta
           /\ validated' = [validated EXCEPT ![NewSlot] = "1"]
        \/ /\ step = 16 /\ UNCHANGED meta
           /\ validated' = [validated EXCEPT ![oldActive] = "0"]
    BY <1>1, OpOrder, Zenon DEF SetVariable
  <1>3. UNCHANGED << bootfs, rootfs, autoboot, power, job, oldActive, oldUp, newImg,
                     migrated, table, oldBoot, oldRootfs, oldData >>
    BY DEF SetVariable, NextOp, oldDisk
  <1>4. step' = IF step = 17 THEN 0 ELSE step + 1
    BY <1>1, OpOrder, Zenon DEF SetVariable, NextOp
  <1>5. step \in 1 .. 16 /\ step' = step + 1 /\ newImg \in Images
    BY <1>1, <1>2, <1>4
  <1>6. ~ migrated /\ table = "old" /\ oldUp
    BY <1>1, <1>5 DEF MInv, MigrationTypeOK, Eras
  <1>7. TypeOK'
    <2>1. meta' \in [Slot -> [Key -> KeyValue \cup {None}]]
      <3>1. ASSUME NEW k \in Key, NEW v \in KeyValue \cup {None},
                   meta' = [meta EXCEPT ![NewSlot] = [@ EXCEPT ![k] = v]]
            PROVE  meta' \in [Slot -> [Key -> KeyValue \cup {None}]]
        BY <3>1, <1>1, MetaUpdate DEF TypeOK
      <3>2. \A k \in Key : MetaOf(newImg)[k] \in KeyValue
        BY <1>5, MetaOfFacts
      <3>3. meta \in [Slot -> [Key -> KeyValue \cup {None}]]
        BY <1>1 DEF TypeOK
      <3> QED
        BY <1>2, <3>1, <3>2, <3>3
    <2>2. validated' \in [Slot -> {"0", "1", None}]
      BY <1>1, <1>2 DEF TypeOK
    <2> QED
      BY <1>1, <1>3, <2>1, <2>2 DEF TypeOK, power
  <1>8. MigrationTypeOK'
    BY <1>3, <1>5, <1>7 DEF MInv, MigrationTypeOK
  <1>9. Eras'
    BY <1>3, <1>5, <1>6 DEF MInv, Eras, power
  <1>10. MigrationProgress'
    <2>1. /\ step' > 7 => autoboot' = NewSlot'
          /\ step' > 8 => bootfs'[NewSlot'] = newImg'
          /\ step' > 10 => rootfs'[NewSlot'] = newImg'
      BY <1>1, <1>2, <1>3, <1>5 DEF MigrationProgress, NewSlot
    <2>2. /\ step' > 15 => validated'[NewSlot'] = "1"
          /\ step' > 16 => validated'[oldActive'] = "0"
      BY <1>1, <1>2, <1>3, <1>5, NewSlotFacts DEF MigrationProgress, NewSlot, TypeOK
    <2>3. ASSUME NEW i \in 1 .. 4, step' > 10 + i
          PROVE  meta'[NewSlot][KeyOrder[i]] = MetaOf(newImg)[KeyOrder[i]]
      <3>1. CASE step = 10 + i
        <4>1. meta' = [meta EXCEPT ![NewSlot] =
                         [@ EXCEPT ![KeyOrder[i]] = MetaOf(newImg)[KeyOrder[i]]]]
          BY <3>1, <1>2
        <4> QED
          BY <4>1, <1>1, KeyOrderFacts DEF TypeOK
      <3>2. CASE step > 10 + i
        <4>1. meta[NewSlot][KeyOrder[i]] = MetaOf(newImg)[KeyOrder[i]]
          BY <3>2, <1>1 DEF MigrationProgress
        <4>2. CASE UNCHANGED meta
          BY <4>1, <4>2
        <4>3. CASE \E k \in Key : meta' = [meta EXCEPT ![NewSlot] =
                                           [@ EXCEPT ![k] = MetaOf(newImg)[k]]]
          BY <4>1, <4>3, <1>1, KeyOrderFacts DEF TypeOK
        <4> QED
          BY <3>2, <4>2, <4>3, <1>2
      <3> QED
        BY <2>3, <1>5, <3>1, <3>2
    <2> QED
      BY <1>3, <2>1, <2>2, <2>3 DEF MigrationProgress, NewSlot
  <1> QED
    BY <1>3, <1>6, <1>8, <1>9, <1>10 DEF MInv, NewLayoutBoots, MigratedInv

(* The table is replaced when everything else is in place, and the boot    *)
(* records written with it are no part of it.                              *)
LEMMA MInvWriteTable ==
    ASSUME MInv, WriteTable
    PROVE  MInv'
  <1>1. /\ TypeOK /\ oldActive \in Slot /\ NewSlot \in Slot
        /\ step \in 0 .. 17 /\ step = 17 /\ newImg \in Images
        /\ Eras /\ MigrationProgress
    <2>1. step \in 0 .. 17 /\ oldActive \in Slot
      BY DEF MInv, MigrationTypeOK
    <2>2. step = 17
      BY <2>1, OpOrder, Zenon DEF WriteTable, Write
    <2> QED
      BY <2>1, <2>2, NewSlotFacts DEF MInv, MigrationTypeOK, Eras
  <1>2. step' = 0
    <2>1. step' = IF step = 17 THEN 0 ELSE step + 1
      BY <1>1, OpOrder, Zenon DEF WriteTable, NextOp
    <2> QED
      BY <1>1, <2>1
  <1>3. /\ table' = "new" /\ RuinOld({BootRecords}) /\ RuinNew({BootRecords})
        /\ UNCHANGED << validated, meta, power, job, oldActive, oldUp, newImg, migrated >>
    BY DEF WriteTable, Write, NextOp
  <1>4. ~ migrated /\ oldUp
    BY <1>1 DEF MInv, MigrationTypeOK, Eras
  <1>5. TypeOK'
    BY <1>1, <1>3, RuinTypes DEF TypeOK, power
  <1>6. oldBoot' \in SUBSET Slot /\ oldRootfs' \in SUBSET Slot /\ oldData' \in BOOLEAN
    BY <1>3 DEF RuinOld, MInv, MigrationTypeOK
  <1>7. MigrationTypeOK'
    BY <1>2, <1>3, <1>5, <1>6 DEF MInv, MigrationTypeOK
  <1>8. Eras'
    BY <1>2, <1>3, <1>4 DEF MInv, Eras, power
  <1>9. MigrationProgress'
    BY <1>2 DEF MigrationProgress
  <1>10. NewLayoutBoots'
    <2>1. /\ autoboot = NewSlot /\ bootfs[NewSlot] = newImg /\ rootfs[NewSlot] = newImg
          /\ validated[NewSlot] = "1" /\ validated[oldActive] = "0"
      BY <1>1 DEF MigrationProgress
    <2>2. \A k \in Key : meta[NewSlot][k] = MetaOf(newImg)[k]
      <3>1. \A i \in 1 .. 4 : meta[NewSlot][KeyOrder[i]] = MetaOf(newImg)[KeyOrder[i]]
        BY <1>1 DEF MigrationProgress
      <3>2. \A k \in Key : \E i \in 1 .. 4 : k = KeyOrder[i]
        BY KeyOrderFacts DEF Key
      <3> QED
        BY <3>1, <3>2
    <2>3. /\ autoboot' = NewSlot /\ bootfs'[NewSlot] = newImg /\ rootfs'[NewSlot] = newImg
      BY <1>1, <1>3, <2>1, NewLayoutDisjoint DEF RuinNew, Hits
    <2>4. NewSlot' = NewSlot /\ Other(NewSlot) = oldActive
      BY <1>1, <1>3, NewSlotFacts DEF NewSlot
    <2> QED
      <3>1. Complete(autoboot)'
        BY <1>1, <2>3, SlotFacts DEF Complete
      <3>2. \A k \in Key : meta'[autoboot'][k] = MetaOf(rootfs'[autoboot'])[k]
        BY <1>3, <2>2, <2>3
      <3>3. validated'[autoboot'] = "1" /\ validated'[Other(autoboot')] # "1"
        BY <1>3, <2>1, <2>3, <2>4
      <3> QED
        BY <2>3, <2>4, <3>1, <3>2, <3>3, Zenon DEF NewLayoutBoots
  <1> QED
    BY <1>3, <1>4, <1>7, <1>8, <1>9, <1>10 DEF MInv, MigratedInv

(* The first boot hands the board over to TrybootAB.                       *)
LEMMA MInvBoot ==
    ASSUME MInv, BootNew
    PROVE  MInv'
  <1>1. /\ ~ migrated /\ ~ oldUp /\ table = "new" /\ Boot /\ migrated' = TRUE
        /\ UNCHANGED << table, oldActive, oldDisk, oldUp, step, newImg >>
    BY DEF BootNew
  <1>2. IInv'
    <2>1. IInv
      BY <1>1, HandOverInv DEF MInv
    <2> QED
      BY <1>1, <2>1, IInvNext DEF Next
  <1>3. MigrationTypeOK'
    BY <1>1, <1>2 DEF MInv, MigrationTypeOK, IInv, oldDisk
  <1>4. Eras' /\ MigrationProgress'
    BY <1>1 DEF MInv, MigrationTypeOK, Eras, MigrationProgress
  <1> QED
    BY <1>1, <1>2, <1>3, <1>4 DEF MInv, NewLayoutBoots, MigratedInv

(* What the migrated board does from then on.                              *)
LEMMA MInvLive ==
    ASSUME MInv, Live
    PROVE  MInv'
  <1>1. migrated /\ Next /\ UNCHANGED migrationVars
    BY DEF Live
  <1>2. IInv'
    BY <1>1, IInvNext DEF MInv, MigratedInv
  <1>3. UNCHANGED << table, oldActive, oldBoot, oldRootfs, oldData, oldUp, step, newImg, migrated >>
    BY <1>1 DEF migrationVars, oldDisk
  <1>4. MigrationTypeOK'
    BY <1>2, <1>3 DEF MInv, MigrationTypeOK, IInv
  <1>5. Eras' /\ MigrationProgress'
    BY <1>1, <1>3 DEF MInv, MigrationTypeOK, Eras, MigrationProgress
  <1> QED
    BY <1>1, <1>2, <1>3, <1>4, <1>5 DEF MInv, NewLayoutBoots, MigratedInv

(* The invariant is inductive.                                             *)
LEMMA MInvNext == MInv /\ [MigrationNext]_boardVars => MInv'
  <1> SUFFICES ASSUME MInv, [MigrationNext]_boardVars PROVE MInv'
    OBVIOUS
  <1>1. CASE UNCHANGED boardVars
    <2>1. UNCHANGED << bootfs, rootfs, autoboot, validated, meta, running, runImg, try,
                       param, switched, job, table, oldActive, oldBoot, oldRootfs,
                       oldData, oldUp, step, newImg, migrated >>
      BY <1>1 DEF boardVars, vars, disk, power, migrationVars, oldDisk
    <2>2. TypeOK' /\ IInv' = IInv
      BY <2>1 DEF MInv, MigrationTypeOK, IInv, TypeOK, JobShape, JobSlot, RunningIntact,
                  ValidatedBootable, Bootable, FallbackKept, TargetWithdrawn,
                  RunningValidated
    <2>3. MigrationTypeOK' /\ Eras'
      BY <2>1, <2>2 DEF MInv, MigrationTypeOK, Eras
    <2>4. MigrationProgress' /\ NewLayoutBoots' /\ MigratedInv'
      BY <2>1, <2>2 DEF MInv, MigrationProgress, NewLayoutBoots, Complete, NewSlot, MigratedInv
    <2> QED
      BY <2>3, <2>4 DEF MInv
  <1> QED
    BY <1>1, MInvOld, MInvWriteExtent, MInvFill, MInvSetVariable, MInvWriteTable,
       MInvBoot, MInvLive DEF MigrationNext

(* It holds in every reachable state.                                      *)
THEOREM MigrationInductive == MigrationSpec => []MInv
  BY MInvInit, MInvNext, PTL DEF MigrationSpec

(* For every layout whose partitions do not overlap, every image, and every*)
(* history of old upgrades and cut-off migrations: once the new table is   *)
(* on the disk, the board can boot it into one complete image.             *)
THEOREM MigratesToBootable == MigrationSpec => []NewLayoutBoots
  <1>1. MInv => NewLayoutBoots
    BY DEF MInv
  <1> QED
    BY <1>1, MigrationInductive, PTL

(* And from its first boot on everything proved of TrybootAB's invariant   *)
(* holds of it: no task writes the running rootfs, revert leads to a slot  *)
(* that boots.                                                             *)
THEOREM MigratedSafely == MigrationSpec => []MigratedInv
  <1>1. MInv => MigratedInv
    BY DEF MInv
  <1> QED
    BY <1>1, MigrationInductive, PTL

(***************************************************************************)
(* Where the new slot A ends before the old slot B.                        *)
(***************************************************************************)

(* What the migration from the old slot B formats or writes lies outside   *)
(* the partitions the old system is on.                                    *)
LEMMA OldBOutside ==
    ASSUME SparesOldB,
           NEW r, \/ r \in {AutobootPart, BootPart("a"), BootRecords}
                  \/ \E img \in Images : r = RootfsExtent("a", img)
    PROVE  ~ Overlap(r, OldBootPart("b")) /\ ~ Overlap(r, OldRootfs("b"))
  <1>1. SizeOf[FactoryImage] \in Nat /\ FactoryImage \in Images
    BY LayoutNat, ImagesAssumption
  <1>2. /\ EXTENDED_PART_OFFSET = AUTOBOOT_PART_OFFSET + AUTOBOOT_PART_COUNT
        /\ BOOT_A_PART_OFFSET + 2 * OLD_BOOT_PART_COUNT <= AUTOBOOT_PART_OFFSET
        /\ ROOTFS_A_PART_OFFSET + SizeOf[FactoryImage] <= OLD_ROOTFS_B_PART_OFFSET
    BY <1>1 DEF SparesOldB, EXTENDED_PART_OFFSET
  <1>3. CASE r \in {AutobootPart, BootPart("a"), BootRecords}
    BY <1>1, <1>2, <1>3, LayoutNat, LayoutAssumption
       DEF SparesOldB, Overlap, Extent, AutobootPart, BootPart, BootRecords, OldBootPart,
           OldRootfs, BOOT_A_PART_OFFSET, AUTOBOOT_PART_COUNT, EBR_COUNT
  <1>4. ASSUME NEW img \in Images, r = RootfsExtent("a", img)
        PROVE  ~ Overlap(r, OldBootPart("b")) /\ ~ Overlap(r, OldRootfs("b"))
    BY <1>1, <1>2, <1>4, LayoutNat, LayoutAssumption
       DEF SparesOldB, Overlap, Extent, RootfsExtent, RootfsPart, OldBootPart, OldRootfs,
           BOOT_A_PART_OFFSET, AUTOBOOT_PART_COUNT, EBR_COUNT
  <1> QED
    BY <1>3, <1>4

(* Every step leaves the old slot B as it was, or the board leaves it.     *)
LEMMA SparedNext ==
    ASSUME SparesOldB
    PROVE  MInv /\ OldSlotBSpared /\ [MigrationNext]_boardVars => OldSlotBSpared'
  <1> SUFFICES ASSUME MInv, OldSlotBSpared, [MigrationNext]_boardVars,
                      table' = "old", oldActive' = "b"
               PROVE  /\ "b" \in oldBoot' /\ "b" \in oldRootfs'
                      /\ meta'["b"]["platform"] = PlatformOf[FactoryImage]
    BY DEF OldSlotBSpared, OldBootable
  <1>1. /\ oldActive \in Slot /\ NewSlot \in Slot /\ FactoryImage \in Images
        /\ meta \in [Slot -> [Key -> KeyValue \cup {None}]]
        /\ step # 0 => newImg \in Images
        /\ "a" \in Slot /\ "b" \in Slot
    BY NewSlotFacts, ImagesAssumption DEF MInv, MigrationTypeOK, TypeOK, Eras, Slot
  <1>2. table = "old" /\ oldActive = "b" =>
          /\ "b" \in oldBoot /\ "b" \in oldRootfs
          /\ meta["b"]["platform"] = PlatformOf[FactoryImage]
    BY DEF OldSlotBSpared, OldBootable
  <1>3. CASE OldUpgrade
    <2>1. NewSlot = "b"
      BY <1>3 DEF OldUpgrade
    <2>2. meta'["b"] = MetaOf(FactoryImage)
      BY <1>1, <1>3, <2>1 DEF OldUpgrade
    <2>3. "b" \in oldBoot' /\ "b" \in oldRootfs'
      BY <1>3, <2>1 DEF OldUpgrade
    <2> QED
      BY <1>1, <2>2, <2>3, MetaOfFacts
  <1>4. CASE WriteExtent
    <2>1. /\ UNCHANGED << oldActive, meta, table >> /\ NewSlot = "a"
      BY <1>4 DEF WriteExtent, NextOp, NewSlot, Other
    <2>2. PICK r : /\ RuinOld({r})
                   /\ \/ r \in {AutobootPart, BootPart("a"), BootRecords}
                      \/ \E img \in Images : r = RootfsExtent("a", img)
      <3>1. PICK r : /\ RuinOld({r}) /\ step # 0
                     /\ r \in {AutobootPart, BootPart(NewSlot), RootfsExtent(NewSlot, newImg)}
        BY <1>4 DEF WriteExtent, Write, OnOp
      <3> QED
        BY <1>1, <2>1, <3>1
    <2>3. "b" \in oldBoot' /\ "b" \in oldRootfs'
      BY <1>2, <2>1, <2>2, OldBOutside DEF RuinOld, Hits
    <2> QED
      BY <1>2, <2>1, <2>3
  <1>5. CASE SetVariable
    <2>1. /\ UNCHANGED << oldActive, table, oldBoot, oldRootfs >> /\ NewSlot = "a"
      BY <1>5 DEF SetVariable, NextOp, NewSlot, Other, oldDisk
    <2>2. meta'["b"] = meta["b"]
      BY <1>1, <1>5, <2>1 DEF SetVariable
    <2> QED
      BY <1>2, <2>1, <2>2
  <1>6. CASE ~ (OldUpgrade \/ WriteExtent \/ SetVariable)
    <2>1. ~ WriteTable /\ ~ BootNew /\ ~ Live
      BY DEF WriteTable, BootNew, Live, MInv, Eras, migrationVars
    <2>2. UNCHANGED << oldActive, table, oldBoot, oldRootfs, meta >>
      <3>1. CASE Fill
        BY <3>1 DEF Fill, NextOp, oldDisk
      <3>2. CASE BootOld \/ OldDown \/ AbortMigration \/ \E img \in Images : StartMigration(img)
        BY <3>2 DEF BootOld, OldDown, AbortMigration, StartMigration, vars, disk, oldDisk
      <3>3. CASE UNCHANGED boardVars
        BY <3>3 DEF boardVars, vars, disk, migrationVars, oldDisk
      <3> QED
        BY <1>6, <2>1, <3>1, <3>2, <3>3 DEF MigrationNext
    <2> QED
      BY <1>2, <2>2
  <1> QED
    BY <1>3, <1>4, <1>5, <1>6

(* On such a layout a migration from the old slot B can be cut anywhere:   *)
(* until the new table is written the old system boots, and may try again. *)
THEOREM OldSlotBKept ==
    ASSUME SparesOldB
    PROVE  MigrationSpec => []OldSlotBSpared
  <1>1. MigrationInit => OldSlotBSpared
    BY MetaOfFacts, ImagesAssumption DEF MigrationInit, OldSlotBSpared, OldBootable, Slot
  <1> QED
    BY <1>1, SparedNext, MigrationInductive, PTL DEF MigrationSpec

(***************************************************************************)
(* Where both layouts put the application partition at the same place.     *)
(***************************************************************************)

(* The migration formats and writes nothing behind that place.             *)
LEMMA BelowData ==
    ASSUME APP_PART_OFFSET = OLD_APP_PART_OFFSET,
           NEW s \in Slot,
           NEW r, \/ r \in {AutobootPart, BootPart(s), BootRecords}
                  \/ \E img \in Images : r = RootfsExtent(s, img)
    PROVE  r.offset + r.count <= OLD_APP_PART_OFFSET
  <1>1. /\ APP_PART_OFFSET = ROOTFS_A_PART_OFFSET + ROOTFS_A_PART_COUNT + ROOTFS_A_PART_COUNT
        /\ EXTENDED_PART_OFFSET =
             BOOT_A_PART_OFFSET + BOOT_A_PART_COUNT + BOOT_A_PART_COUNT + AUTOBOOT_PART_COUNT
    BY DEF APP_PART_OFFSET, ROOTFS_B_PART_OFFSET, EXTENDED_PART_OFFSET, AUTOBOOT_PART_OFFSET,
           BOOT_B_PART_OFFSET
  <1>2. CASE r \in {AutobootPart, BootPart(s), BootRecords}
    BY <1>1, <1>2, LayoutAssumption
       DEF AutobootPart, BootPart, BootRecords, Extent, EBR_COUNT, AUTOBOOT_PART_COUNT,
           BOOT_A_PART_OFFSET, BOOT_B_PART_OFFSET, AUTOBOOT_PART_OFFSET
  <1>3. ASSUME NEW img \in Images, r = RootfsExtent(s, img)
        PROVE  r.offset + r.count <= OLD_APP_PART_OFFSET
    <2>1. SizeOf[img] \in Nat /\ SizeOf[img] <= ROOTFS_A_PART_COUNT
      BY SizeAssumption, LayoutAssumption
    <2> QED
      BY <1>1, <1>3, <2>1, LayoutAssumption
         DEF RootfsExtent, RootfsPart, Extent, ROOTFS_B_PART_OFFSET
  <1> QED
    BY <1>2, <1>3

(* Then the application's data survives every migration, however often it  *)
(* is cut and repeated, and the new table finds it.                        *)
THEOREM DataSurvives ==
    ASSUME APP_PART_OFFSET = OLD_APP_PART_OFFSET
    PROVE  MigrationSpec => []DataKept
  <1>1. MigrationInit => DataKept
    BY DEF MigrationInit, DataKept
  <1>2. MInv /\ DataKept /\ [MigrationNext]_boardVars => DataKept'
    <2> SUFFICES ASSUME MInv, oldData, [MigrationNext]_boardVars
                 PROVE  oldData'
      BY DEF DataKept
    <2>1. CASE WriteExtent \/ WriteTable
      <3>1. NewSlot \in Slot /\ (step # 0 => newImg \in Images)
        BY NewSlotFacts DEF MInv, MigrationTypeOK, Eras
      <3>2. PICK r : /\ RuinOld({r}) /\ step # 0
                     /\ r \in {AutobootPart, BootPart(NewSlot), BootRecords,
                               RootfsExtent(NewSlot, newImg)}
        BY <2>1 DEF WriteExtent, WriteTable, Write, OnOp
      <3>3. r.offset + r.count <= OLD_APP_PART_OFFSET
        BY <3>1, <3>2, BelowData
      <3> QED
        BY <3>2, <3>3 DEF RuinOld
    <2>2. CASE ~ (WriteExtent \/ WriteTable)
      BY <2>2 DEF MigrationNext, BootOld, OldDown, AbortMigration, OldUpgrade, StartMigration,
                  Fill, SetVariable, BootNew, Live, boardVars, migrationVars, oldDisk
    <2> QED
      BY <2>1, <2>2
  <1> QED
    BY <1>1, <1>2, MigrationInductive, PTL DEF MigrationSpec

(***************************************************************************)
(* What holds of careful operation holds after a migration too.            *)
(***************************************************************************)

(* The first boot from the new layout is the boot of a validated slot, and *)
(* no flag the old system left behind makes a second one.                  *)
LEMMA CarefulFirstBoot ==
    ASSUME MInv, BootNew
    PROVE  CarefulInv'
  <1>1. /\ table = "new" /\ ~ migrated /\ Boot /\ ~ try /\ ~ param /\ job = Idle
        /\ UNCHANGED << disk, param, job >> /\ ~ try' /\ ~ switched'
        /\ running' = BootSlot
    BY DEF BootNew, Boot, MInv, Eras
  <1>2. /\ autoboot \in Slot /\ running' = autoboot
        /\ Complete(autoboot)
        /\ \A k \in Key : meta[autoboot][k] = MetaOf(rootfs[autoboot])[k]
        /\ validated[autoboot] = "1" /\ validated[Other(autoboot)] # "1"
    BY <1>1, NewSlotFacts DEF MInv, NewLayoutBoots, MigrationTypeOK, BootSlot
  <1>3. Matches(autoboot, rootfs[autoboot])
    BY <1>2, MetaOfFacts DEF Matches, Complete, Key
  <1>4. \A s \in Slot : validated[s] = "1" => s = autoboot
    BY <1>2, SlotFacts
  <1>5. ValidatedIntact' /\ RunningComplete'
    BY <1>1, <1>2, <1>3, <1>4
       DEF ValidatedIntact, RunningComplete, Intact, Complete, Matches, disk
  <1> QED
    BY <1>1, <1>2, <1>5, SlotFacts
       DEF CarefulInv, Phases, TrialIntact, DefaultValidated, RunsDefault, RevertTarget,
           Progress, Upgrading, Idle, disk

(* So a migrated board that is updated with care boots whenever it goes    *)
(* down, its trials roll back, and its validated slots take upgrades.      *)
THEOREM MigratedCarefully ==
    ASSUME CutsInSwitch = FALSE, OperatorSkipsReboot = FALSE
    PROVE  MigrationSpec => [](migrated =>
               /\ AlwaysBootable /\ UpgradeHarmless /\ ValidatedUpgradable
               /\ TrialRollsBack)
  <1> DEFINE Inv == migrated => CarefulInv
  <1>1. MigrationInit => Inv
    BY DEF MigrationInit
  <1>2. MInv /\ MInv' /\ Inv /\ [MigrationNext]_boardVars => Inv'
    <2> SUFFICES ASSUME MInv, MInv', Inv, [MigrationNext]_boardVars, migrated'
                 PROVE  CarefulInv'
      OBVIOUS
    <2>1. CASE BootNew
      BY <2>1, CarefulFirstBoot
    <2>2. CASE ~ BootNew
      <3>1. migrated
        BY <2>2 DEF MigrationNext, BootOld, OldDown, AbortMigration, OldUpgrade,
             StartMigration, WriteExtent, Fill, SetVariable, WriteTable, NextOp, Live,
             boardVars, migrationVars
      <3>2. [Next]_vars
        BY <3>1 DEF MigrationNext, BootOld, OldDown, AbortMigration, OldUpgrade,
             StartMigration, WriteExtent, Fill, SetVariable, WriteTable, Write, OnOp, NextOp,
             Live, BootNew, boardVars, migrationVars, MInv, Eras
      <3> QED
        BY <3>1, <3>2, CarefulNext DEF MInv, MigratedInv
    <2> QED
      BY <2>1, <2>2
  <1>3. MInv /\ Inv => (migrated => /\ AlwaysBootable /\ UpgradeHarmless
                                    /\ ValidatedUpgradable /\ TrialRollsBack)
    BY CarefulConsequences DEF MInv, MigratedInv
  <1> QED
    BY <1>1, <1>2, <1>3, MigrationInductive, PTL DEF MigrationSpec
=============================================================================
