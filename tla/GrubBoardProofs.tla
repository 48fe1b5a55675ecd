--------------------------- MODULE GrubBoardProofs ---------------------------
(***************************************************************************)
(* Theorems about GrubBoard: the first installation hands over the disk    *)
(* that GrubAB starts from, wherever it was cut, and what is proved of     *)
(* GrubAB holds of the board from its first boot on.                       *)
(***************************************************************************)
EXTENDS GrubBoardInv, GrubABProofs

(* The position of each operation of the task.                             *)
LEMMA OpOrder ==
    ASSUME install \in 1 .. 15
    PROVE  /\ Len(CompleteOps) = 15
           /\ OnOp("mkfs") <=> install = 1
           /\ OnOp("clearenv") <=> install = 2
           /\ OnOp("active") <=> install = 3
           /\ OnOp("version") <=> install = 4
           /\ OnOp("platform") <=> install = 5
           /\ OnOp("architecture") <=> install = 6
           /\ OnOp("uuid") <=> install = 7
           /\ OnOp("validated") <=> install = 8
           /\ OnOp("loader") <=> install = 9
           /\ OnOp("grub.cfg") <=> install = 10
           /\ OnOp("erase") <=> install = 11
           /\ OnOp("rootfs") <=> install = 12
           /\ OnOp("truncate") <=> install = 13
           /\ OnOp("grubenv") <=> install = 14
           /\ OnOp("clear-b") <=> install = 15
  <1>1. install \in {1, 2, 3, 4, 5, 6, 7, 8, 9, 10, 11, 12, 13, 14, 15}
    OBVIOUS
  <1> QED
    BY <1>1 DEF OnOp, CompleteOps

(* An installation starts on media without firmware.                       *)
LEMMA InstallInit == BoardInit => InstallInv
  BY DEF BoardInit, InstallInv, Unshipped, InstallProgress, BootFilesMark, BlankMeta, Slot, Key

(* A step of the installation is the operation whose turn it is.           *)
LEMMA InstallOps ==
    ASSUME InstallInv, InstallStep
    PROVE  /\ install \in 1 .. 15 /\ ~ shipped /\ ~ shipped'
           /\ Unshipped /\ InstallProgress /\ BootFilesMark /\ Off'
           /\ install' = IF install = 15 THEN 0 ELSE install + 1
  <1>1. install # 0 /\ UNCHANGED << power, job, shipped >>
    BY DEF InstallStep, EspOps, EnvOps, RootfsOps, OnOp
  <1>2. install \in 1 .. 15
    BY <1>1 DEF InstallInv
  <1>3. ~ shipped /\ ~ shipped' /\ Unshipped /\ InstallProgress /\ BootFilesMark
    BY <1>1 DEF InstallInv
  <1>4. Off'
    BY <1>1, <1>3 DEF Unshipped, Off, power
  <1>5. install' = IF install = 15 THEN 0 ELSE install + 1
    BY <1>2, OpOrder DEF InstallStep
  <1> QED
    BY <1>2, <1>3, <1>4, <1>5

(* The operations on the ESP come when the environment is finished, but    *)
(* for mkfs, which takes the boot files away.                              *)
LEMMA InstallEsp ==
    ASSUME InstallInv, InstallStep, EspOps
    PROVE  InstallInv'
  <1>1. /\ install \in 1 .. 15 /\ ~ shipped' /\ Unshipped /\ InstallProgress /\ BootFilesMark
        /\ install' = (IF install = 15 THEN 0 ELSE install + 1) /\ Off'
        /\ UNCHANGED << rootfs, active, meta, validated, fwValidated >>
    BY InstallOps DEF EspOps
  <1>2. /\ install \in {1, 9, 10, 13, 14}
        /\ grubenv' \in {"a", "none"}
        /\ install = 1 => esp' = {}
        /\ install \in {9, 10} \/ esp' = esp \/ install = 1
    BY <1>1, OpOrder DEF EspOps, Unshipped
  <1>3. EnvDone' <=> EnvDone
    BY <1>1 DEF EnvDone
  <1>4. Unshipped'
    BY <1>1, <1>2 DEF Unshipped
  <1>5. InstallProgress'
    BY <1>1, <1>2, <1>3 DEF InstallProgress
  <1>6. BootFilesMark'
    BY <1>1, <1>2, <1>3 DEF BootFilesMark, InstallProgress
  <1> QED
    BY <1>1, <1>2, <1>4, <1>5, <1>6 DEF InstallInv

(* The operations on the environment complete it, one variable each, while *)
(* there are no boot files.                                                *)
LEMMA InstallEnv ==
    ASSUME InstallInv, InstallStep, EnvOps
    PROVE  InstallInv'
  <1>1. /\ install \in 1 .. 15 /\ ~ shipped' /\ Unshipped /\ InstallProgress /\ BootFilesMark
        /\ install' = (IF install = 15 THEN 0 ELSE install + 1) /\ Off'
        /\ UNCHANGED << rootfs, grubenv, esp >>
        /\ MetaOf(FactoryImage) \in [Key -> KeyValue] /\ "a" \in Slot /\ "b" \in Slot
    BY InstallOps, MetaOfFacts, ImagesAssumption DEF EnvOps, Slot
  <1>2. CASE install = 2
    <2>1. /\ active' = None /\ meta' = BlankMeta /\ fwValidated' = None
          /\ validated' = [s \in Slot |-> None]
      BY <1>1, <1>2, OpOrder DEF EnvOps, Key
    <2>2. Unshipped' /\ BootFilesMark' /\ InstallProgress'
      BY <1>1, <1>2, <2>1 DEF Unshipped, BlankMeta, BootFilesMark, InstallProgress
    <2> QED
      BY <1>1, <1>2, <2>2 DEF InstallInv
  <1>3. CASE install = 3
    <2>1. active' = "a" /\ UNCHANGED << meta, validated, fwValidated >>
      BY <1>1, <1>3, OpOrder DEF EnvOps, Key
    <2>2. Unshipped' /\ BootFilesMark' /\ InstallProgress'
      BY <1>1, <1>3, <2>1 DEF Unshipped, BootFilesMark, InstallProgress
    <2> QED
      BY <1>1, <1>3, <2>2 DEF InstallInv
  <1>4. CASE install \in {4, 5, 6, 7}
    <2>1. PICK k \in Key :
            /\ meta' = [meta EXCEPT !["a"] = [@ EXCEPT ![k] = MetaOf(FactoryImage)[k]]]
            /\ OnOp(k) /\ UNCHANGED << active, validated, fwValidated >>
      BY <1>1, <1>4, OpOrder DEF EnvOps
    <2>2. /\ install = 4 => k = "version"
          /\ install = 5 => k = "platform"
          /\ install = 6 => k = "architecture"
          /\ install = 7 => k = "uuid"
      BY <1>1, <1>4, <2>1, OpOrder DEF Key
    <2>3. /\ meta' \in [Slot -> [Key -> KeyValue \cup {None}]]
          /\ meta'["b"] = meta["b"]
          /\ meta'["a"] = [meta["a"] EXCEPT ![k] = MetaOf(FactoryImage)[k]]
          /\ meta["a"] \in [Key -> KeyValue \cup {None}]
      BY <1>1, <2>1 DEF Unshipped
    <2>4. Unshipped'
      BY <1>1, <2>1, <2>3 DEF Unshipped
    <2>5. BootFilesMark'
      BY <1>1, <1>4 DEF BootFilesMark
    <2>6. InstallProgress'
      BY <1>1, <1>4, <2>1, <2>2, <2>3 DEF InstallProgress, Key
    <2> QED
      BY <1>1, <1>4, <2>4, <2>5, <2>6 DEF InstallInv
  <1>5. CASE install = 8
    <2>1. /\ validated' = IF TracksSlotValidation
                          THEN [validated EXCEPT !["a"] = "1"] ELSE validated
          /\ UNCHANGED << active, meta, fwValidated >>
      BY <1>1, <1>5, OpOrder DEF EnvOps, Key
    <2>2. meta["a"] = MetaOf(FactoryImage)
      BY <1>1, <1>5 DEF Unshipped, InstallProgress, Key
    <2>3. EnvDone'
      BY <1>1, <1>5, <2>1, <2>2 DEF EnvDone, Unshipped, InstallProgress
    <2>4. Unshipped'
      <3>1. /\ validated' \in [Slot -> {"1", None}] /\ validated'["b"] = None
            /\ ~ TracksSlotValidation => validated'["a"] = None
        BY <1>1, <2>1 DEF Unshipped
      <3> QED
        BY <1>1, <2>1, <3>1 DEF Unshipped
    <2>5. BootFilesMark' /\ InstallProgress'
      BY <1>1, <1>5, <2>1, <2>3 DEF BootFilesMark, InstallProgress
    <2> QED
      BY <1>1, <1>5, <2>4, <2>5 DEF InstallInv
  <1> QED
    BY <1>1, <1>2, <1>3, <1>4, <1>5, OpOrder DEF EnvOps, Key

(* The operations on the rootfs partitions leave the environment alone.    *)
LEMMA InstallRootfs ==
    ASSUME InstallInv, InstallStep, RootfsOps
    PROVE  InstallInv'
  <1>1. /\ install \in 1 .. 15 /\ ~ shipped' /\ Unshipped /\ InstallProgress /\ BootFilesMark
        /\ install' = (IF install = 15 THEN 0 ELSE install + 1) /\ Off'
        /\ UNCHANGED << grubenv, active, meta, validated, fwValidated, esp >>
    BY InstallOps DEF RootfsOps
  <1>2. /\ install \in {11, 12, 15}
        /\ rootfs' \in [Slot -> {NoImage, FactoryImage}] /\ rootfs'["b"] = NoImage
    BY <1>1, OpOrder DEF RootfsOps, Unshipped, Slot
  <1>3. EnvDone' <=> EnvDone
    BY <1>1 DEF EnvDone
  <1> QED
    BY <1>1, <1>2, <1>3 DEF InstallInv, Unshipped, InstallProgress, BootFilesMark

(* A board that boots for the first time has the environment and the       *)
(* rootfs that GrubAB starts from: a loader and a script are there, so the *)
(* environment was finished, and the slot booted is A.                     *)
LEMMA FirstBootFinds ==
    ASSUME InstallInv, FirstBoot
    PROVE  Init
  <1>1. /\ Unshipped /\ EnvDone
        /\ rootfs[Selected] \in Images
    BY DEF FirstBoot, Boot, InstallInv, BootFilesMark
  <1>2. Selected = "a" /\ rootfs["a"] = FactoryImage
    BY <1>1, ImagesAssumption DEF Selected, Unshipped, Slot
  <1>3. /\ rootfs = [s \in Slot |-> IF s = "a" THEN FactoryImage ELSE NoImage]
        /\ meta = [s \in Slot |-> IF s = "a" THEN MetaOf(FactoryImage)
                                             ELSE [k \in Key |-> None]]
        /\ validated = [s \in Slot |->
                          IF s = "a" /\ TracksSlotValidation THEN "1" ELSE None]
    BY <1>1, <1>2 DEF Unshipped, EnvDone, Slot
  <1> QED
    BY <1>1, <1>3 DEF Init, InstalledDisk, Unshipped, EnvDone

(* The invariant is inductive.                                             *)
LEMMA InstallNext == InstallInv /\ [BoardNext]_boardVars => InstallInv'
  <1> SUFFICES ASSUME InstallInv, [BoardNext]_boardVars PROVE InstallInv'
    OBVIOUS
  <1>1. CASE BeginInstall \/ InstallCut
    <2>1. ~ shipped /\ ~ shipped' /\ install' \in {0, 1} /\ UNCHANGED << vars, esp >>
      BY <1>1 DEF BeginInstall, InstallCut, InstallInv
    <2> QED
      BY <2>1 DEF InstallInv, Unshipped, Off, InstallProgress, BootFilesMark, EnvDone, vars,
                  disk, power
  <1>2. CASE InstallStep
    BY <1>2, InstallEsp, InstallEnv, InstallRootfs DEF InstallStep
  <1>3. CASE FirstBoot
    <2>1. IInv /\ Next /\ install' = 0 /\ shipped'
      BY <1>3, FirstBootFinds, IInvInit DEF FirstBoot, Next
    <2> QED
      BY <2>1, IInvNext DEF InstallInv
  <1>4. CASE Live
    BY <1>4, IInvNext DEF Live, InstallInv
  <1>5. CASE UNCHANGED boardVars
    <2>1. UNCHANGED << vars, esp, install, shipped >>
      BY <1>5 DEF boardVars
    <2>2. shipped => IInv'
      BY <2>1, IInvNext DEF InstallInv
    <2> QED
      BY <2>1, <2>2 DEF InstallInv, Unshipped, Off, InstallProgress, BootFilesMark, EnvDone,
                        vars, disk, power
  <1> QED
    BY <1>1, <1>2, <1>3, <1>4, <1>5 DEF BoardNext

(* It holds in every reachable state.                                      *)
THEOREM InstallInductive == BoardSpec => []InstallInv
  BY InstallInit, InstallNext, PTL DEF BoardSpec

(* An installation cut at any operation and repeated any number of times   *)
(* never lets a board boot from less than what GrubAB assumes.             *)
THEOREM HandsOver == BoardSpec => HandOver
  <1>1. InstallInv /\ [BoardNext]_boardVars =>
          [~ shipped /\ shipped' => InstalledDisk]_boardVars
    <2> SUFFICES ASSUME InstallInv, BoardNext, ~ shipped, shipped' PROVE InstalledDisk
      OBVIOUS
    <2>1. FirstBoot
      BY DEF BoardNext, BeginInstall, InstallStep, InstallCut, Live
    <2> QED
      BY <2>1, FirstBootFinds DEF Init
  <1> QED
    BY <1>1, InstallInductive, PTL DEF BoardSpec, HandOver

(* From the first boot on the board keeps what GrubAB promises: updates    *)
(* can be retried, revert is offered complete slots only, and firmware for *)
(* another board is refused.                                               *)
THEOREM ShippedSafely ==
    BoardSpec => [](shipped => /\ ActiveSlotUpgradable /\ OfferedSlotTruthful
                               /\ OnlyBoardFirmware)
  <1>1. InstallInv => (shipped => /\ ActiveSlotUpgradable /\ OfferedSlotTruthful
                                  /\ OnlyBoardFirmware)
    BY DEF InstallInv, IInv
  <1> QED
    BY <1>1, InstallInductive, PTL

(* Where the operator reboots after a switch and none is cut, it boots at  *)
(* every moment, its running rootfs is left alone and status tells what    *)
(* GRUB will do.                                                           *)
THEOREM ShippedCarefully ==
    ASSUME CutsInSwitch = FALSE, OperatorSkipsReboot = FALSE
    PROVE  BoardSpec => [](shipped =>
               AlwaysBootable /\ RunningSlotUntouched /\ StatusTruthful)
  <1> DEFINE Inv == shipped => CarefulInv
  <1>1. BoardInit => Inv
    BY DEF BoardInit
  <1>2. InstallInv /\ Inv /\ [BoardNext]_boardVars => Inv'
    <2> SUFFICES ASSUME InstallInv, Inv, [BoardNext]_boardVars, shipped'
                 PROVE  CarefulInv'
      OBVIOUS
    <2>1. CASE FirstBoot
      <3>1. IInv /\ CarefulInv /\ Next
        BY <2>1, FirstBootFinds, IInvInit, CarefulInit DEF FirstBoot, Next
      <3> QED
        BY <3>1, CarefulNext
    <2>2. CASE ~ FirstBoot
      <3>1. shipped /\ [Next]_vars
        BY <2>2 DEF BoardNext, BeginInstall, InstallStep, InstallCut, Live, InstallInv,
                    EspOps, EnvOps, RootfsOps, OnOp, boardVars
      <3> QED
        BY <3>1, CarefulNext DEF InstallInv
    <2> QED
      BY <2>1, <2>2
  <1>3. InstallInv /\ Inv =>
          (shipped => AlwaysBootable /\ RunningSlotUntouched /\ StatusTruthful)
    BY CarefulConsequences DEF InstallInv
  <1> QED
    BY <1>1, <1>2, <1>3, InstallInductive, PTL DEF BoardSpec
=============================================================================
