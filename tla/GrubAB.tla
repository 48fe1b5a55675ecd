------------------------------- MODULE GrubAB -------------------------------
(***************************************************************************)
(* A/B firmware updates on the GRUB systems (rubik_pi3, dragon_q6a and     *)
(* x86_64): the fwup tasks upgrade, revert, prevent-revert and validate,   *)
(* executed operation by operation, the slot choice of grub.cfg, reboots   *)
(* and power cuts.                                                         *)
(*                                                                         *)
(* fwup runs one task at a time and its operations reach the disk in the   *)
(* order the task lists them; a power cut may come between any two of      *)
(* them.  The task in progress is job: pc is the next operation and i the  *)
(* position in KeyOrder of the next metadata variable.                     *)
(***************************************************************************)
EXTENDS FwSlots

CONSTANTS
    TracksSlotValidation,  \* rubik_pi3, dragon_q6a: TRUE; x86_64: FALSE
    CutsInSwitch,          \* may power fail while a task switches slots?
    OperatorSkipsReboot    \* may a task start before the reboot a switch calls for?

ASSUME EnvironmentAssumption ==
    /\ TracksSlotValidation \in BOOLEAN
    /\ CutsInSwitch \in BOOLEAN
    /\ OperatorSkipsReboot \in BOOLEAN

VARIABLES
    rootfs,       \* content of the rootfs partitions
    grubenv,      \* "boot" of /EFI/BOOT/grubenv, as a slot; "none": no such file
    active,       \* nerves_fw_active
    meta,         \* per-slot firmware metadata
    validated,    \* per-slot nerves_fw_validated
    fwValidated,  \* the global nerves_fw_validated
    running,      \* slot of the running system, "none" when it is down
    runImg,       \* image the running system was booted from
    job,          \* the fwup task in progress
    switched      \* a task has switched slots since the last boot

disk == << rootfs, grubenv, active, meta, validated, fwValidated >>
power == << running, runImg, switched >>
vars == << disk, power, job >>

SwitchPC == {"activate", "truncate", "grubenv"}
PC == {"unset", "trim", "write", "writing", "set", "dropglobal",
       "setvalid", "clearvalid"} \cup SwitchPC

Jobs == [task : {"none", "upgrade", "revert", "prevent-revert"}, slot : Slot,
         img : Images \cup {NoImage}, pc : PC, i : 1 .. 4]

Idle == [task |-> "none", slot |-> "a", img |-> NoImage, pc |-> "unset", i |-> 1]

TypeOK ==
    /\ rootfs \in [Slot -> Images \cup {NoImage}]
    /\ grubenv \in Slot \cup {"none"}
    /\ active \in Slot
    /\ meta \in [Slot -> [Key -> KeyValue \cup {None}]]
    /\ validated \in [Slot -> {"0", "1", None}]
    /\ fwValidated \in {"1", None}
    /\ running \in Slot \cup {"none"}
    /\ runImg \in Images \cup {NoImage}
    /\ job \in Jobs
    /\ switched \in BOOLEAN

(***************************************************************************)
(* What the first-installation task leaves: slot A holds the factory       *)
(* image, slot B is cleared.  The grubenv file is the last thing written,  *)
(* so an installation cut short there also boots (from A).                 *)
(***************************************************************************)
InstalledDisk ==
    /\ rootfs = [s \in Slot |-> IF s = "a" THEN FactoryImage ELSE NoImage]
    /\ grubenv \in {"a", "none"}
    /\ active = "a"
    /\ meta = [s \in Slot |-> IF s = "a" THEN MetaOf(FactoryImage)
                                         ELSE [k \in Key |-> None]]
    /\ validated = [s \in Slot |->
                      IF s = "a" /\ TracksSlotValidation THEN "1" ELSE None]
    /\ fwValidated = None

Off ==
    /\ running = "none"
    /\ runImg = NoImage
    /\ job = Idle
    /\ switched = FALSE

Init == InstalledDisk /\ Off
-----------------------------------------------------------------------------
(***************************************************************************)
(* grub.cfg                                                                *)
(***************************************************************************)

\* The slot grub.cfg boots: B if the environment file says so, else A.
SelectedMutant == "a"
Selected == IF grubenv = "b" THEN "b" ELSE "a"

\* GRUB loads the kernel of the selected slot; without one it stays at its
\* prompt, which is no step of the model.
Boot ==
    /\ running = "none"
    /\ rootfs[Selected] \in Images
    /\ running' = Selected
    /\ runImg' = rootfs[Selected]
    /\ switched' = FALSE
    /\ UNCHANGED << disk, job >>

Reboot ==
    /\ running # "none"
    /\ job = Idle
    /\ running' = "none"
    /\ runImg' = NoImage
    /\ UNCHANGED << disk, job, switched >>

\* Where a task may be cut short.
MayStop ==
    /\ job # Idle
    /\ job.pc \in {"truncate", "grubenv"} => CutsInSwitch

\* Power fails in the middle of a task, whose remaining operations are lost.
PowerCut ==
    /\ MayStop
    /\ running' = "none"
    /\ runImg' = NoImage
    /\ job' = Idle
    /\ UNCHANGED << disk, switched >>

\* fwup itself stops early (a truncated or corrupt archive, a lost stream, an
\* I/O error, a kill); the system stays up.  No task has an on-error section.
Abort ==
    /\ MayStop
    /\ job' = Idle
    /\ UNCHANGED << disk, power >>
-----------------------------------------------------------------------------
(***************************************************************************)
(* Starting a task.  fwup runs the first task whose requirements hold; the *)
(* tasks named wrong, wrongplatform, unexpected and fail only report an    *)
(* error, so a request that matches no task below changes nothing.         *)
(***************************************************************************)
CanStart ==
    /\ running # "none"
    /\ job = Idle
    /\ switched => OperatorSkipsReboot

Start(task, s, img, pc, i) ==
    /\ job' = [task |-> task, slot |-> s, img |-> img, pc |-> pc, i |-> i]
    /\ UNCHANGED << disk, power >>

\* The require-uboot-variable pair on platform and architecture of slot s.
MatchesMutant(s, img) == meta[s]["platform"] = PlatformOf[img]
Matches(s, img) ==
    /\ meta[s]["platform"] = PlatformOf[img]
    /\ meta[s]["architecture"] = ArchOf[img]

StartUpgradeMutant(s, img) ==
    /\ CanStart
    /\ Matches("a", img)
    /\ Start("upgrade", s, img, "unset", 1)
StartUpgradeNoUnset(s, img) ==
    /\ CanStart
    /\ active = Other(s)
    /\ Matches(Other(s), img)
    /\ Start("upgrade", s, img, "trim", 1)
StartUpgrade(s, img) ==
    /\ CanStart
    /\ active = Other(s)
    /\ Matches(Other(s), img)
    /\ Start("upgrade", s, img, "unset", 1)

StartRevertMutant(s) ==
    /\ CanStart
    /\ active = Other(s)
    /\ Start("revert", s, NoImage, "activate", 1)
\* ops.fw is part of the running image and carries its platform.
StartRevert(s) ==
    /\ CanStart
    /\ active = Other(s)
    /\ Matches(s, runImg)
    /\ Start("revert", s, NoImage, "activate", 1)

\* Unsets platform and architecture only: positions 2 and 3 of KeyOrder.
StartPreventRevertMutant(s) ==
    /\ CanStart
    /\ active = s
    /\ Start("prevent-revert", s, NoImage, "unset", 2)
StartPreventRevert(s) ==
    /\ CanStart
    /\ active = Other(s)
    /\ Start("prevent-revert", s, NoImage, "unset", 2)

Validate ==
    /\ CanStart
    /\ fwValidated' = "1"
    /\ UNCHANGED << rootfs, grubenv, active, meta, validated, power, job >>
-----------------------------------------------------------------------------
(***************************************************************************)
(* The operations of a task.                                               *)
(***************************************************************************)
At(pc) == job # Idle /\ job.pc = pc
GoTo(pc) == job' = [task |-> job.task, slot |-> job.slot, img |-> job.img,
                    pc |-> pc, i |-> 1]

LastUnset == IF job.task = "upgrade" THEN 4 ELSE 3

\* uboot_unsetenv of the next metadata variable of the target slot.
UnsetKey ==
    /\ At("unset")
    /\ meta' = [meta EXCEPT ![job.slot] = [@ EXCEPT ![KeyOrder[job.i]] = None]]
    /\ IF job.i = LastUnset THEN GoTo("trim") ELSE job' = [job EXCEPT !.i = @ + 1]
    /\ UNCHANGED << rootfs, grubenv, active, validated, fwValidated, power >>

\* trim() discards the partition only when fwup got --enable-trim.
TrimRootfs ==
    /\ At("trim")
    /\ \/ rootfs' = [rootfs EXCEPT ![job.slot] = NoImage]
       \/ UNCHANGED rootfs
    /\ IF job.task = "upgrade" THEN GoTo("write") ELSE job' = Idle
    /\ UNCHANGED << grubenv, active, meta, validated, fwValidated, power >>

WriteRootfsBeginMutant ==
    /\ At("write")
    /\ rootfs' = [rootfs EXCEPT ![job.slot] = NoImage]
    /\ GoTo("set")
    /\ UNCHANGED << grubenv, active, meta, validated, fwValidated, power >>
WriteRootfsBegin ==
    /\ At("write")
    /\ rootfs' = [rootfs EXCEPT ![job.slot] = NoImage]
    /\ GoTo("writing")
    /\ UNCHANGED << grubenv, active, meta, validated, fwValidated, power >>

WriteRootfsEnd ==
    /\ At("writing")
    /\ rootfs' = [rootfs EXCEPT ![job.slot] = job.img]
    /\ GoTo("set")
    /\ UNCHANGED << grubenv, active, meta, validated, fwValidated, power >>

\* uboot_setenv of the next metadata variable, from the image's own values.
SetKey ==
    /\ At("set")
    /\ meta' = [meta EXCEPT ![job.slot] =
                  [@ EXCEPT ![KeyOrder[job.i]] = MetaOf(job.img)[KeyOrder[job.i]]]]
    /\ IF job.i = 4
       THEN GoTo(IF TracksSlotValidation THEN "dropglobal" ELSE "activate")
       ELSE job' = [job EXCEPT !.i = @ + 1]
    /\ UNCHANGED << rootfs, grubenv, active, validated, fwValidated, power >>

DropGlobalValidated ==
    /\ At("dropglobal")
    /\ fwValidated' = None
    /\ GoTo("setvalid")
    /\ UNCHANGED << rootfs, grubenv, active, meta, validated, power >>

SetTargetValidated ==
    /\ At("setvalid")
    /\ validated' = [validated EXCEPT ![job.slot] = "1"]
    /\ GoTo("clearvalid")
    /\ UNCHANGED << rootfs, grubenv, active, meta, fwValidated, power >>

ClearOtherValidatedMutant ==
    /\ At("clearvalid")
    /\ validated' = [validated EXCEPT ![job.slot] = "0"]
    /\ GoTo("activate")
    /\ UNCHANGED << rootfs, grubenv, active, meta, fwValidated, power >>
ClearOtherValidated ==
    /\ At("clearvalid")
    /\ validated' = [validated EXCEPT ![Other(job.slot)] = "0"]
    /\ GoTo("activate")
    /\ UNCHANGED << rootfs, grubenv, active, meta, fwValidated, power >>

\* uboot_setenv nerves_fw_active: from here on the tasks see the new slot.
SetActive ==
    /\ At("activate")
    /\ active' = job.slot
    /\ GoTo("truncate")
    /\ UNCHANGED << rootfs, grubenv, meta, validated, fwValidated, power >>

\* fat_write replaces the grubenv file: it creates an empty file ...
TruncateGrubenv ==
    /\ At("truncate")
    /\ grubenv' = "none"
    /\ GoTo("grubenv")
    /\ UNCHANGED << rootfs, active, meta, validated, fwValidated, power >>

\* ... and fills it, the last operation of the task.
WriteGrubenv ==
    /\ At("grubenv")
    /\ grubenv' = job.slot
    /\ job' = Idle
    /\ switched' = TRUE
    /\ UNCHANGED << rootfs, active, meta, validated, fwValidated, running, runImg >>

JobStep ==
    \/ UnsetKey \/ TrimRootfs \/ WriteRootfsBegin \/ WriteRootfsEnd \/ SetKey
    \/ DropGlobalValidated \/ SetTargetValidated \/ ClearOtherValidated
    \/ SetActive \/ TruncateGrubenv \/ WriteGrubenv

Next ==
    \/ Boot
    \/ Reboot
    \/ PowerCut
    \/ Abort
    \/ \E s \in Slot, img \in Images : StartUpgrade(s, img)
    \/ \E s \in Slot : StartRevert(s)
    \/ \E s \in Slot : StartPreventRevert(s)
    \/ Validate
    \/ JobStep

Spec == Init /\ [][Next]_vars

(***************************************************************************)
(* A powered board boots, fwup finishes what it started unless power fails *)
(* and whoever switched slots reboots, as the tasks' documentation asks.   *)
(***************************************************************************)
Fairness ==
    /\ WF_vars(Boot)
    /\ WF_vars(JobStep)
    /\ WF_vars(switched /\ Reboot)

FairSpec == Spec /\ Fairness
-----------------------------------------------------------------------------
(***************************************************************************)
(* Properties that hold whatever the operator does and whenever power      *)
(* fails.                                                                  *)
(***************************************************************************)

(* The slot that nerves_fw_active names holds a complete image and its     *)
(* platform and architecture, at every operation of every task: an upgrade *)
(* that was cut short can be retried, because the requirements of          *)
(* upgrade.a or upgrade.b (fwup.conf) hold again.                          *)
ActiveSlotUpgradable ==
    /\ rootfs[active] \in Images
    /\ Matches(active, rootfs[active])

(* A slot whose platform is set holds a complete image, and whatever its   *)
(* other variables say is that image's.  revert relies on it: platform and *)
(* architecture are its only evidence that the slot it switches to is      *)
(* bootable.  The order "unset, trim, write, set" of upgrade.a/b is for    *)
(* this; version and uuid alone prove nothing (prevent-revert keeps them). *)
OfferedSlotTruthful ==
    \A s \in Slot :
        meta[s]["platform"] # None =>
            /\ rootfs[s] \in Images
            /\ \A k \in Key : meta[s][k] \in {None, MetaOf(rootfs[s])[k]}

(* No sequence of upgrades, reverts and cuts installs firmware built for   *)
(* another platform or architecture than the factory image's, although     *)
(* each task compares with the metadata of one slot only.                  *)
OnlyBoardFirmware ==
    \A s \in Slot : rootfs[s] \in Images => Compatible(rootfs[s], FactoryImage)

(* Power failing between the two nerves_fw_validated assignments of an     *)
(* upgrade never leaves both slots unvalidated.                            *)
SomeSlotValidated ==
    TracksSlotValidation => \E s \in Slot : validated[s] = "1"

(* Before nerves_fw_active, between it and grubenv, and until grubenv is   *)
(* filled, both slots hold a complete image and its platform and           *)
(* architecture.  A cut in there leaves fwup and GRUB with different       *)
(* slots, or GRUB with its fallback to A; whichever it is, the next boot   *)
(* finds an image, and an upgrade or a revert is accepted after it.        *)
CutSwitchBootable ==
    job # Idle /\ job.pc \in SwitchPC =>
        \A s \in Slot : rootfs[s] \in Images /\ Matches(s, rootfs[s])

(* While the running slot is also the active one, no step touches its      *)
(* rootfs: this is all that the "make sure we're running on B" test on     *)
(* nerves_fw_active can give.                                              *)
ActiveRunningSlotSpared ==
    [][running = active => rootfs'[running] = rootfs[running]]_vars

(* The tasks implement the A/B promise: the spare is withdrawn when its    *)
(* platform is unset, offered again once both are set, and put in force by *)
(* nerves_fw_active.                                                       *)
Offered(s) == meta[s]["platform"] # None /\ meta[s]["architecture"] # None

Inventory == INSTANCE SlotInventory WITH
    inForce <- active,
    stock   <- [s \in Slot |-> IF Offered(s) THEN rootfs[s] ELSE NoImage]

ImplementsInventory == Inventory!StockSpec

(***************************************************************************)
(* Properties that hold when power does not fail between the last three    *)
(* operations of a switch and the operator reboots after one.              *)
(***************************************************************************)

(* Whenever power fails, the slot GRUB would select can be booted          *)
(* (fwup.conf: the grubenv blobs are written last "in case the user aborts *)
(* the programming midway").                                               *)
AlwaysBootable == rootfs[Selected] \in Images

(* The partition the running system lives in is never overwritten          *)
(* (fwup.conf, upgrade.a/b: "so make sure we're running on ...").          *)
RunningSlotUntouched == running # "none" => rootfs[running] = runImg

(* status.ab and status.ba: when they report a pending switch, the next    *)
(* boot takes it.                                                          *)
StatusTruthful ==
    running # "none" /\ job = Idle => Selected = active

(* An upgrade never writes the slot the system runs from: "This task       *)
(* upgrades the B partition, so make sure we're running on A", as the      *)
(* tasks upgrade.a and upgrade.b of fwup.conf say.                         *)
UpgradeSparesRunning == At("writing") => job.slot # running

(* A slot that was made active gets to run, unless the next task of a      *)
(* later boot makes the other one active first.                            *)
SwitchTakesEffect ==
    \A s \in Slot : (active = s /\ job = Idle) ~> running = s
=============================================================================
