------------------------------ MODULE TrybootAB ------------------------------
(***************************************************************************)
(* A/B firmware updates on the Raspberry Pi systems: the fwup tasks        *)
(* upgrade, validate, revert and prevent-revert, executed operation by     *)
(* operation, and the firmware's tryboot protocol.                         *)
(*                                                                         *)
(* autoboot.txt names the default slot; the other one is booted once after *)
(* a reboot with the parameter "0 tryboot" and must be validated by the    *)
(* running system to become the default.  An operation of fwup is a step,  *)
(* reaches the disk in order, and power may fail between any two.          *)
(***************************************************************************)
EXTENDS FwSlots

CONSTANTS
    ChecksArch,          \* upgrade requires the architecture; rpi0_2: FALSE
    CutsInSwitch,        \* may a task stop while it changes the default slot?
    OperatorSkipsReboot  \* may a task start before the reboot an upgrade or revert calls for?

ASSUME EnvironmentAssumption ==
    /\ ChecksArch \in BOOLEAN
    /\ CutsInSwitch \in BOOLEAN
    /\ OperatorSkipsReboot \in BOOLEAN

VARIABLES
    bootfs,     \* the image whose boot files a boot partition holds
    rootfs,     \* content of the rootfs partitions
    autoboot,   \* slot autoboot.txt boots by default, "none" while it is empty
    validated,  \* per-slot nerves_fw_validated
    meta,       \* per-slot firmware metadata
    running,    \* slot of the running system, "none" when it is down
    runImg,     \* image its rootfs had when it booted
    param,      \* reboot parameter "0 tryboot", kept by the running system
    try,        \* the firmware was told to boot the other slot once
    job,        \* the fwup task in progress
    switched    \* an upgrade or a revert finished since the last boot

disk == << bootfs, rootfs, autoboot, validated, meta >>
power == << running, runImg, try, param, switched >>
vars == << disk, power, job >>

PC == {"invalidate", "unset", "mkfs", "trim", "trimboot", "bootfiles", "write",
       "writing", "set", "param", "truncate", "autoboot", "validate"}

Jobs == [task : {"none", "upgrade", "validate", "revert", "prevent-revert"},
         slot : Slot, img : Images \cup {NoImage}, pc : PC, i : 1 .. 4]

Idle == [task |-> "none", slot |-> "a", img |-> NoImage, pc |-> "unset", i |-> 1]

TypeOK ==
    /\ bootfs \in [Slot -> Images \cup {NoImage}]
    /\ rootfs \in [Slot -> Images \cup {NoImage}]
    /\ autoboot \in Slot \cup {"none"}
    /\ validated \in [Slot -> {"0", "1", None}]
    /\ meta \in [Slot -> [Key -> KeyValue \cup {None}]]
    /\ running \in Slot \cup {"none"}
    /\ runImg \in Images \cup {NoImage}
    /\ param \in BOOLEAN
    /\ try \in BOOLEAN
    /\ job \in Jobs
    /\ switched \in BOOLEAN

\* What the task complete leaves: slot A holds the factory image, slot B nothing.
Init ==
    /\ bootfs = [s \in Slot |-> IF s = "a" THEN FactoryImage ELSE NoImage]
    /\ rootfs = [s \in Slot |-> IF s = "a" THEN FactoryImage ELSE NoImage]
    /\ autoboot = "a"
    /\ validated = [s \in Slot |-> IF s = "a" THEN "1" ELSE None]
    /\ meta = [s \in Slot |-> IF s = "a" THEN MetaOf(FactoryImage)
                                         ELSE [k \in Key |-> None]]
    /\ running = "none"
    /\ runImg = NoImage
    /\ param = FALSE
    /\ try = FALSE
    /\ job = Idle
    /\ switched = FALSE
-----------------------------------------------------------------------------
(***************************************************************************)
(* The firmware and the running system's power.                            *)
(***************************************************************************)

\* The sections of autoboot.txt: [all] and, for one boot, [tryboot].
BootSlot == IF try /\ autoboot # "none" THEN Other(autoboot) ELSE autoboot

\* A kernel and a root file system are there; nothing compares the two.
Bootable(s) == s # "none" /\ bootfs[s] \in Images /\ rootfs[s] \in Images

BootMutant ==
    /\ running = "none"
    /\ ~ try
    /\ Bootable(BootSlot)
    /\ running' = BootSlot
    /\ runImg' = rootfs[BootSlot]
    /\ try' = FALSE
    /\ switched' = FALSE
    /\ UNCHANGED << disk, param, job >>
Boot ==
    /\ running = "none"
    /\ Bootable(BootSlot)
    /\ running' = BootSlot
    /\ runImg' = rootfs[BootSlot]
    /\ try' = FALSE
    /\ switched' = FALSE
    /\ UNCHANGED << disk, param, job >>

\* An attempt to boot the other slot fails; the next one takes the default.
TryFails ==
    /\ running = "none"
    /\ try
    /\ ~ Bootable(BootSlot)
    /\ try' = FALSE
    /\ UNCHANGED << disk, running, runImg, param, job, switched >>

Reboot ==
    /\ running # "none"
    /\ job = Idle
    /\ running' = "none"
    /\ runImg' = NoImage
    /\ try' = param
    /\ param' = FALSE
    /\ UNCHANGED << disk, job, switched >>

\* fat_write empties autoboot.txt before it fills it; validate and
\* prevent-revert then set nerves_fw_validated, and prevent-revert unsets
\* two variables of the other slot before it takes that slot's flag away.
Switching ==
    \/ job.task \in {"validate", "revert"} /\ job.pc \in {"autoboot", "validate"}
    \/ /\ job.task = "prevent-revert"
       /\ job.pc \in {"autoboot", "validate", "unset", "invalidate"}
MayStop == Switching => CutsInSwitch

\* Power fails or the system crashes: the task and the parameter are lost.
PowerCut ==
    /\ running # "none" \/ try
    /\ MayStop
    /\ running' = "none"
    /\ runImg' = NoImage
    /\ try' = FALSE
    /\ param' = FALSE
    /\ job' = Idle
    /\ UNCHANGED << disk, switched >>

\* fwup alone stops early; on-error is empty, so nothing is undone.
Abort ==
    /\ job # Idle
    /\ MayStop
    /\ job' = Idle
    /\ UNCHANGED << disk, power >>
-----------------------------------------------------------------------------
(***************************************************************************)
(* Starting a task.  require-path-at-offset("/") asks which slot is really *)
(* running.                                                                *)
(***************************************************************************)
CanStart ==
    /\ running # "none"
    /\ job = Idle
    /\ switched => OperatorSkipsReboot

Start(task, s, img, pc, i) ==
    /\ job' = [task |-> task, slot |-> s, img |-> img, pc |-> pc, i |-> i]
    /\ UNCHANGED << disk, power >>

MatchesMutant(s, img) == meta[s]["platform"] = PlatformOf[img]
Matches(s, img) ==
    /\ meta[s]["platform"] = PlatformOf[img]
    /\ ChecksArch => meta[s]["architecture"] = ArchOf[img]

StartUpgradeUnvalidated(s, img) ==
    /\ CanStart
    /\ running = Other(s)
    /\ Matches(running, img)
    /\ Start("upgrade", s, img, "invalidate", 1)
StartUpgradeByDefault(s, img) ==
    /\ CanStart
    /\ autoboot = Other(s)
    /\ validated[Other(s)] = "1"
    /\ Matches(Other(s), img)
    /\ Start("upgrade", s, img, "invalidate", 1)
StartUpgrade(s, img) ==
    /\ CanStart
    /\ running = Other(s)
    /\ validated[running] = "1"
    /\ Matches(running, img)
    /\ Start("upgrade", s, img, "invalidate", 1)

StartValidate(s) ==
    /\ CanStart
    /\ running = s
    /\ Start("validate", s, NoImage, "truncate", 1)

StartRevertMutant(s) ==
    /\ CanStart
    /\ running = Other(s)
    /\ Start("revert", s, NoImage, "truncate", 1)
StartRevert(s) ==
    /\ CanStart
    /\ running = Other(s)
    /\ validated[s] = "1"
    /\ Start("revert", s, NoImage, "truncate", 1)

StartPreventRevert(s) ==
    /\ CanStart
    /\ running = Other(s)
    /\ Start("prevent-revert", s, NoImage, "truncate", 1)
-----------------------------------------------------------------------------
(***************************************************************************)
(* The operations of a task.  upgrade: invalidate, unset, mkfs, trim,      *)
(* bootfiles, write, writing, set, param.  validate: truncate, autoboot,   *)
(* validate.  revert: truncate, autoboot.  prevent-revert: those of        *)
(* validate for the running slot, then unset, invalidate, trim, trimboot.  *)
(***************************************************************************)
At(pc) == job # Idle /\ job.pc = pc
GoToKey(pc, i) == job' = [task |-> job.task, slot |-> job.slot, img |-> job.img,
                          pc |-> pc, i |-> i]
GoTo(pc) == GoToKey(pc, 1)
Upgrading == job.task = "upgrade"

\* The slot that the task's autoboot file boots by default.
Default == IF job.task = "prevent-revert" THEN Other(job.slot) ELSE job.slot

InvalidateMutant ==
    /\ At("invalidate")
    /\ GoTo(IF Upgrading THEN "unset" ELSE "trim")
    /\ UNCHANGED << disk, power >>
Invalidate ==
    /\ At("invalidate")
    /\ validated' = [validated EXCEPT ![job.slot] = "0"]
    /\ GoTo(IF Upgrading THEN "unset" ELSE "trim")
    /\ UNCHANGED << bootfs, rootfs, autoboot, meta, power >>

\* upgrade unsets all four variables, prevent-revert the second and the third.
UnsetKey ==
    /\ At("unset")
    /\ meta' = [meta EXCEPT ![job.slot] = [@ EXCEPT ![KeyOrder[job.i]] = None]]
    /\ IF job.i < IF Upgrading THEN 4 ELSE 3
       THEN GoToKey("unset", job.i + 1)
       ELSE GoTo(IF Upgrading THEN "mkfs" ELSE "invalidate")
    /\ UNCHANGED << bootfs, rootfs, autoboot, validated, power >>

MkfsBoot ==
    /\ At("mkfs")
    /\ bootfs' = [bootfs EXCEPT ![job.slot] = NoImage]
    /\ GoTo("trim")
    /\ UNCHANGED << rootfs, autoboot, validated, meta, power >>

\* trim() does nothing unless fwup got --enable-trim.
TrimRootfs ==
    /\ At("trim")
    /\ \/ rootfs' = [rootfs EXCEPT ![job.slot] = NoImage]
       \/ UNCHANGED rootfs
    /\ GoTo(IF Upgrading THEN "bootfiles" ELSE "trimboot")
    /\ UNCHANGED << bootfs, autoboot, validated, meta, power >>

TrimBoot ==
    /\ At("trimboot")
    /\ \/ bootfs' = [bootfs EXCEPT ![job.slot] = NoImage]
       \/ UNCHANGED bootfs
    /\ job' = Idle
    /\ UNCHANGED << rootfs, autoboot, validated, meta, power >>

\* The last of the boot files; the partition does not boot without it.
WriteBootFiles ==
    /\ At("bootfiles")
    /\ bootfs' = [bootfs EXCEPT ![job.slot] = job.img]
    /\ GoTo("write")
    /\ UNCHANGED << rootfs, autoboot, validated, meta, power >>

WriteRootfsBegin ==
    /\ At("write")
    /\ rootfs' = [rootfs EXCEPT ![job.slot] = NoImage]
    /\ GoTo("writing")
    /\ UNCHANGED << bootfs, autoboot, validated, meta, power >>

WriteRootfsEnd ==
    /\ At("writing")
    /\ rootfs' = [rootfs EXCEPT ![job.slot] = job.img]
    /\ GoTo("set")
    /\ UNCHANGED << bootfs, autoboot, validated, meta, power >>

SetKey ==
    /\ At("set")
    /\ meta' = [meta EXCEPT ![job.slot] =
                  [@ EXCEPT ![KeyOrder[job.i]] = MetaOf(job.img)[KeyOrder[job.i]]]]
    /\ IF job.i < 4 THEN GoToKey("set", job.i + 1) ELSE GoTo("param")
    /\ UNCHANGED << bootfs, rootfs, autoboot, validated, power >>

\* reboot_param("0 tryboot"), the last operation of an upgrade.
SetRebootParam ==
    /\ At("param")
    /\ param' = TRUE
    /\ switched' = TRUE
    /\ job' = Idle
    /\ UNCHANGED << disk, running, runImg, try >>

TruncateAutoboot ==
    /\ At("truncate")
    /\ autoboot' = "none"
    /\ GoTo("autoboot")
    /\ UNCHANGED << bootfs, rootfs, validated, meta, power >>

WriteAutoboot ==
    /\ At("autoboot")
    /\ autoboot' = Default
    /\ IF job.task = "revert"
       THEN job' = Idle /\ switched' = TRUE
       ELSE GoTo("validate") /\ UNCHANGED switched
    /\ UNCHANGED << bootfs, rootfs, validated, meta, running, runImg, try, param >>

SetValidatedMutant ==
    /\ At("validate")
    /\ IF job.task = "validate" THEN job' = Idle ELSE GoToKey("unset", 2)
    /\ UNCHANGED << disk, power >>
SetValidated ==
    /\ At("validate")
    /\ validated' = [validated EXCEPT ![Default] = "1"]
    /\ IF job.task = "validate" THEN job' = Idle ELSE GoToKey("unset", 2)
    /\ UNCHANGED << bootfs, rootfs, autoboot, meta, power >>

JobStep ==
    \/ Invalidate \/ UnsetKey \/ MkfsBoot \/ TrimRootfs \/ TrimBoot
    \/ WriteBootFiles \/ WriteRootfsBegin \/ WriteRootfsEnd \/ SetKey
    \/ SetRebootParam \/ TruncateAutoboot \/ WriteAutoboot \/ SetValidated

Next ==
    \/ Boot
    \/ TryFails
    \/ Reboot
    \/ PowerCut
    \/ Abort
    \/ \E s \in Slot, img \in Images : StartUpgrade(s, img)
    \/ \E s \in Slot : StartValidate(s)
    \/ \E s \in Slot : StartRevert(s)
    \/ \E s \in Slot : StartPreventRevert(s)
    \/ JobStep

Spec == Init /\ [][Next]_vars

(* A powered board boots, and who upgraded or reverted reboots.            *)
FairSpec == Spec /\ WF_vars(Boot) /\ WF_vars(JobStep) /\ WF_vars(switched /\ Reboot)
-----------------------------------------------------------------------------
(***************************************************************************)
(* Properties that hold whatever the operator does and whenever a task or  *)
(* the power stops.                                                        *)
(***************************************************************************)

(* The rootfs of the running system is never written: the tasks ask which  *)
(* partition "/" is on, and not, as the GRUB systems do, what a variable   *)
(* says.                                                                   *)
RunningSlotUntouched == running # "none" => rootfs[running] = runImg

(* A validated slot has boot files and a rootfs, which is all that         *)
(* revert.a and revert.b look at before they make it the default: upgrade  *)
(* and prevent-revert drop the flag before they touch the partitions.      *)
ValidatedBootable == \A s \in Slot : validated[s] = "1" => Bootable(s)

(* There is always a validated slot to fall back to: prevent-revert        *)
(* validates the running slot before it invalidates the other, and an      *)
(* upgrade only starts from a validated one.                               *)
FallbackKept == \E s \in Slot : validated[s] = "1"

(* No sequence of tasks puts an image for another platform or architecture *)
(* on the board (upgrade.a/b: "Verify the expected platform/architecture").*)
OnlyBoardFirmware ==
    \A s \in Slot : rootfs[s] \in Images => Compatible(rootfs[s], FactoryImage)

(***************************************************************************)
(* Properties that hold when no task stops while it changes the default    *)
(* slot, and the operator reboots after an upgrade or a revert.            *)
(***************************************************************************)
Complete(s) == s # "none" /\ rootfs[s] \in Images /\ bootfs[s] = rootfs[s]

(* Whenever the board is down, for whatever reason, the default slot holds *)
(* one complete image.                                                     *)
AlwaysBootable == running = "none" => Complete(autoboot)

(* upgrade.a/b: "The MBR still points to the B partition, so an error or   *)
(* power failure during this part won't hurt anything."                    *)
UpgradeHarmless ==
    Upgrading => autoboot = Other(job.slot) /\ Complete(autoboot)

(* A validated slot holds one complete image and the metadata an upgrade   *)
(* from that slot will require: validating and reverting never lead into a *)
(* dead end.                                                               *)
ValidatedUpgradable ==
    ~ Switching => \A s \in Slot :
        validated[s] = "1" => /\ Complete(s)
                              /\ Matches(s, rootfs[s])

(* status.ab and status.ba report that the running slot is only being      *)
(* tried: then a crash or a plain reboot goes back to the other slot,      *)
(* which is validated and complete.                                        *)
TrialRollsBack ==
    running # "none" /\ job = Idle /\ validated[running] = "0" =>
        /\ autoboot = Other(running)
        /\ validated[autoboot] = "1"
        /\ Complete(autoboot)

(* A board that goes down comes up again, whatever slot it was to try.     *)
ComesUp == running = "none" ~> running # "none"
=============================================================================
