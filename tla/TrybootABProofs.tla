--------------------------- MODULE TrybootABProofs ---------------------------
(***************************************************************************)
(* Theorems about TrybootAB, for every set of images and every choice of   *)
(* the environment constants, checked by TLAPS.                            *)
(***************************************************************************)
EXTENDS TrybootABInv, TLAPS

(* The order of the metadata variables names each of them.                 *)
LEMMA KeyOrderFacts ==
    /\ KeyOrder[1] = "version" /\ KeyOrder[2] = "platform"
    /\ KeyOrder[3] = "architecture" /\ KeyOrder[4] = "uuid"
    /\ \A i \in 1 .. 4 : KeyOrder[i] \in Key
  BY DEF KeyOrder, Key

(* What an image's metadata looks like.                                    *)
LEMMA MetaOfFacts ==
    ASSUME NEW img \in Images
    PROVE  /\ MetaOf(img) \in [Key -> KeyValue]
           /\ MetaOf(img)["platform"] = PlatformOf[img]
           /\ MetaOf(img)["architecture"] = ArchOf[img]
  BY DEF MetaOf, Key, KeyValue

(* There are exactly two slots and Other is an involution on them.         *)
LEMMA SlotFacts ==
    /\ \A s \in Slot : Other(s) \in Slot /\ Other(s) # s /\ Other(Other(s)) = s
    /\ \A s, t \in Slot : t = s \/ t = Other(s)
    /\ "none" \notin Slot
  BY DEF Slot, Other

(* Moving on and finishing keep the type of job.                           *)
LEMMA IdleJob == Idle \in Jobs
  BY DEF Idle, Jobs, Slot, PC

(* Likewise for moving on to another operation, with or without a key.     *)
LEMMA GoToJob ==
    ASSUME job \in Jobs, NEW pc \in PC, NEW i \in 1 .. 4, GoToKey(pc, i)
    PROVE  job' \in Jobs
  BY DEF GoToKey, Jobs

(* Replacing one metadata value keeps the type of the environment.         *)
LEMMA MetaUpdate ==
    ASSUME meta \in [Slot -> [Key -> KeyValue \cup {None}]],
           NEW s \in Slot, NEW k \in Key, NEW v \in KeyValue \cup {None}
    PROVE  [meta EXCEPT ![s] = [@ EXCEPT ![k] = v]]
             \in [Slot -> [Key -> KeyValue \cup {None}]]
  OBVIOUS

(***************************************************************************)
(* Type correctness.                                                       *)
(***************************************************************************)

(* The disk the task complete leaves is well typed.                        *)
LEMMA TypeInit == Init => TypeOK
  <1> SUFFICES ASSUME Init PROVE TypeOK
    OBVIOUS
  <1>1. meta \in [Slot -> [Key -> KeyValue \cup {None}]]
    BY ImagesAssumption, MetaOfFacts DEF Init
  <1>2. /\ rootfs \in [Slot -> Images \cup {NoImage}]
        /\ bootfs \in [Slot -> Images \cup {NoImage}]
    BY ImagesAssumption DEF Init
  <1>3. job \in Jobs
    BY DEF Init, Idle, Jobs, Slot, PC
  <1> QED
    BY <1>1, <1>2, <1>3 DEF Init, TypeOK, Slot

(* Every step keeps the types; JobShape makes the next metadata variable   *)
(* exist and the image of an upgrade an image.                             *)
LEMMA TypeNext == TypeOK /\ JobShape /\ [Next]_vars => TypeOK'
  <1> SUFFICES ASSUME TypeOK, JobShape, [Next]_vars
               PROVE  TypeOK'
    OBVIOUS
  <1> USE DEF TypeOK, disk, power
  <1>job. /\ job.slot \in Slot /\ job.pc \in PC /\ job.i \in 1 .. 4
          /\ Other(job.slot) \in Slot /\ Default \in Slot
    BY SlotFacts DEF Jobs, Default
  <1>1. CASE Boot
    BY <1>1, SlotFacts DEF Boot, Bootable, BootSlot
  <1>2. CASE TryFails \/ Reboot \/ PowerCut \/ Abort
    BY <1>2, IdleJob, GoToJob DEF GoTo, TryFails, Reboot, PowerCut, Abort
  <1>3. ASSUME NEW s \in Slot, NEW img \in Images, StartUpgrade(s, img)
        PROVE  TypeOK'
    BY <1>3 DEF StartUpgrade, Start, PC, Jobs
  <1>4. ASSUME NEW s \in Slot, StartValidate(s) \/ StartRevert(s) \/ StartPreventRevert(s)
        PROVE  TypeOK'
    BY <1>4 DEF StartValidate, StartRevert, StartPreventRevert, Start, PC, Jobs
  <1>5. CASE Invalidate \/ SetValidated
    <2>1. job' \in Jobs
      BY <1>5, IdleJob, GoToJob DEF GoTo, Invalidate, SetValidated, PC
    <2> QED
      BY <1>5, <1>job, <2>1 DEF Invalidate, SetValidated
  <1>6. CASE UnsetKey
    <2>1. meta' \in [Slot -> [Key -> KeyValue \cup {None}]]
      BY <1>6, <1>job, KeyOrderFacts, MetaUpdate DEF UnsetKey
    <2>2. job.i < (IF Upgrading THEN 4 ELSE 3) => job.i + 1 \in 1 .. 4
      BY <1>job
    <2>3. job' \in Jobs
      BY <1>6, <2>2, IdleJob, GoToJob DEF GoTo, UnsetKey, PC
    <2> QED
      BY <1>6, <2>1, <2>3 DEF UnsetKey
  <1>7. CASE SetKey
    <2>1. MetaOf(job.img)[KeyOrder[job.i]] \in KeyValue \cup {None}
      BY <1>7, <1>job, KeyOrderFacts, MetaOfFacts DEF SetKey, At, JobShape, Jobs
    <2>2. meta' \in [Slot -> [Key -> KeyValue \cup {None}]]
      BY <1>7, <1>job, <2>1, KeyOrderFacts, MetaUpdate DEF SetKey
    <2>3. job.i < 4 => job.i + 1 \in 1 .. 4
      BY <1>job
    <2>4. job' \in Jobs
      BY <1>7, <2>3, IdleJob, GoToJob DEF GoTo, SetKey, PC
    <2> QED
      BY <1>7, <2>2, <2>4 DEF SetKey
  <1>8. CASE MkfsBoot \/ TrimRootfs \/ TrimBoot \/ WriteBootFiles
             \/ WriteRootfsBegin \/ WriteRootfsEnd
    <2>1. job' \in Jobs
      BY <1>8, IdleJob, GoToJob DEF GoTo, MkfsBoot, TrimRootfs, TrimBoot, WriteBootFiles,
                            WriteRootfsBegin, WriteRootfsEnd, PC
    <2>2. job.img \in Images \cup {NoImage}
      BY DEF Jobs
    <2> QED
      BY <1>8, <2>1, <2>2 DEF MkfsBoot, TrimRootfs, TrimBoot, WriteBootFiles,
                              WriteRootfsBegin, WriteRootfsEnd
  <1>9. CASE SetRebootParam \/ TruncateAutoboot \/ WriteAutoboot
    <2>1. job' \in Jobs
      BY <1>9, IdleJob, GoToJob DEF GoTo, SetRebootParam, TruncateAutoboot, WriteAutoboot, PC
    <2> QED
      BY <1>9, <1>job, <2>1 DEF SetRebootParam, TruncateAutoboot, WriteAutoboot
  <1>10. CASE UNCHANGED vars
    BY <1>10 DEF vars
  <1> QED
    BY <1>1, <1>2, <1>3, <1>4, <1>5, <1>6, <1>7, <1>8, <1>9, <1>10 DEF Next, JobStep

(***************************************************************************)
(* The inductive invariant.                                                *)
(***************************************************************************)

(* The disk the task complete leaves satisfies the invariant.              *)
LEMMA IInvInit == Init => IInv
  <1> SUFFICES ASSUME Init PROVE IInv
    OBVIOUS
  <1>1. TypeOK
    BY TypeInit
  <1>2. /\ job = Idle /\ running = "none"
        /\ validated["a"] = "1" /\ validated["b"] = None
        /\ rootfs["a"] \in Images /\ bootfs["a"] \in Images
    BY ImagesAssumption DEF Init, Slot
  <1>3. FallbackKept
    BY <1>2 DEF FallbackKept, Slot
  <1>4. ValidatedBootable
    BY <1>2, ImagesAssumption DEF Init, ValidatedBootable, Bootable, Slot
  <1> QED
    BY <1>1, <1>2, <1>3, <1>4
       DEF IInv, JobShape, JobSlot, RunningIntact, TargetWithdrawn, RunningValidated, Idle

(* Booting, rebooting and stopping a task at any operation keep it.        *)
LEMMA IInvPower ==
    ASSUME IInv, TypeOK', Boot \/ TryFails \/ Reboot \/ PowerCut \/ Abort
    PROVE  IInv'
  <1>1. UNCHANGED disk /\ (job' = Idle \/ UNCHANGED job)
    BY DEF Boot, TryFails, Reboot, PowerCut, Abort
  <1>2. ValidatedBootable' /\ FallbackKept'
    BY <1>1 DEF IInv, ValidatedBootable, FallbackKept, Bootable, disk
  <1>3. job' = Idle \/ running' = running
    BY DEF IInv, JobSlot, TypeOK, Jobs, Boot, TryFails, Reboot, PowerCut, Abort, Slot, Other, power
  <1>4. RunningIntact'
    BY DEF IInv, RunningIntact, Boot, TryFails, Reboot, PowerCut, Abort, Bootable, disk, power
  <1>5. JobShape' /\ JobSlot' /\ TargetWithdrawn' /\ RunningValidated'
    <2>1. CASE job' = Idle
      BY <2>1 DEF JobShape, JobSlot, TargetWithdrawn, RunningValidated, Idle
    <2>2. CASE UNCHANGED << job, running >>
      BY <1>1, <2>2 DEF IInv, JobShape, JobSlot, TargetWithdrawn, RunningValidated, disk
    <2> QED
      BY <1>1, <1>3, <2>1, <2>2
  <1> QED
    BY <1>2, <1>4, <1>5 DEF IInv

(* Starting a task changes job alone.                                      *)
LEMMA IInvStart ==
    ASSUME IInv, TypeOK', NEW s \in Slot,
           \/ \E img \in Images : StartUpgrade(s, img)
           \/ StartValidate(s) \/ StartRevert(s) \/ StartPreventRevert(s)
    PROVE  IInv'
  <1>1. /\ UNCHANGED disk /\ UNCHANGED power
        /\ job'.slot = s
        /\ running = IF job'.task = "validate" THEN s ELSE Other(s)
        /\ \/ /\ job'.task = "upgrade" /\ job'.pc = "invalidate" /\ job'.img \in Images
              /\ validated[running] = "1"
           \/ job'.task \in {"validate", "revert", "prevent-revert"} /\ job'.pc = "truncate"
    BY DEF StartUpgrade, StartValidate, StartRevert, StartPreventRevert, Start
  <1>2. ValidatedBootable' /\ FallbackKept' /\ RunningIntact'
    BY <1>1 DEF IInv, ValidatedBootable, FallbackKept, RunningIntact, Bootable, disk, power
  <1>3. JobShape' /\ JobSlot' /\ TargetWithdrawn' /\ RunningValidated'
    BY <1>1 DEF JobShape, JobSlot, TargetWithdrawn, RunningValidated, disk, power
  <1> QED
    BY <1>2, <1>3 DEF IInv

(* The slot a task other than validate writes to is not the running one.   *)
LEMMA TargetSpare ==
    ASSUME IInv, job # Idle
    PROVE  /\ job.slot \in Slot /\ running \in Slot /\ running # "none"
           /\ job.task # "validate" => running # job.slot /\ Other(job.slot) = running
           /\ job.task = "validate" => running = job.slot
           /\ \A s \in Slot : s = running \/ s = Other(running)
           /\ job.task \in {"validate", "prevent-revert"} => Default = running
  <1>1. /\ job.slot \in Slot
        /\ running = IF job.task = "validate" THEN job.slot ELSE Other(job.slot)
    BY DEF IInv, TypeOK, Jobs, JobSlot
  <1>2. running \in Slot /\ running # "none"
    BY <1>1, SlotFacts
  <1> QED
    BY <1>1, <1>2, SlotFacts DEF Default

(* Taking the target's flag away is safe: the running slot is validated.   *)
LEMMA IInvInvalidate ==
    ASSUME IInv, TypeOK', Invalidate
    PROVE  IInv'
  <1>1. /\ job # Idle /\ job.pc = "invalidate" /\ job.task \in {"upgrade", "prevent-revert"}
    BY DEF Invalidate, At, IInv, TypeOK, Jobs, JobShape
  <1>2. /\ job.slot \in Slot /\ running \in Slot /\ running # job.slot
        /\ validated[running] = "1"
    BY <1>1, TargetSpare DEF IInv, RunningValidated
  <1>3. /\ validated'[job.slot] = "0" /\ validated'[running] = "1"
        /\ \A s \in Slot : validated'[s] = "1" => validated[s] = "1"
        /\ UNCHANGED << rootfs, bootfs, running, runImg >>
    BY <1>2 DEF Invalidate, IInv, TypeOK, power
  <1>4. /\ job'.task = job.task /\ job'.slot = job.slot /\ job'.img = job.img
        /\ job'.pc = IF job.task = "upgrade" THEN "unset" ELSE "trim"
    BY DEF Invalidate, GoTo, GoToKey, Upgrading
  <1>5. ValidatedBootable' /\ FallbackKept' /\ RunningIntact'
    BY <1>2, <1>3 DEF IInv, ValidatedBootable, FallbackKept, RunningIntact, Bootable
  <1>6. JobShape' /\ JobSlot' /\ TargetWithdrawn' /\ RunningValidated'
    BY <1>1, <1>3, <1>4
       DEF IInv, JobShape, JobSlot, TargetWithdrawn, RunningValidated, Idle
  <1> QED
    BY <1>5, <1>6 DEF IInv

(* Only the running slot is ever validated.                                *)
LEMMA IInvValidate ==
    ASSUME IInv, TypeOK', SetValidated
    PROVE  IInv'
  <1>1. job # Idle /\ job.pc = "validate" /\ job.task \in {"validate", "prevent-revert"}
    BY DEF SetValidated, At, IInv, TypeOK, Jobs, JobShape
  <1>2. Default = running /\ running \in Slot /\ running # "none"
    BY <1>1, TargetSpare
  <1>3. /\ validated' = [validated EXCEPT ![running] = "1"]
        /\ validated'[running] = "1"
        /\ UNCHANGED << rootfs, bootfs, running, runImg >>
    BY <1>2 DEF SetValidated, IInv, TypeOK, power
  <1>4. \/ job' = Idle
        \/ /\ job'.task = "prevent-revert" /\ job'.slot = job.slot
           /\ job'.pc = "unset" /\ job'.i = 2 /\ job.task = "prevent-revert"
    BY <1>1 DEF SetValidated, GoToKey
  <1>5. ValidatedBootable' /\ FallbackKept' /\ RunningIntact'
    BY <1>2, <1>3, ImagesAssumption
       DEF IInv, TypeOK, ValidatedBootable, FallbackKept, RunningIntact, Bootable
  <1>6. JobShape' /\ JobSlot' /\ TargetWithdrawn' /\ RunningValidated'
    BY <1>1, <1>3, <1>4
       DEF IInv, JobShape, JobSlot, TargetWithdrawn, RunningValidated, Idle
  <1> QED
    BY <1>5, <1>6 DEF IInv

(* Metadata, autoboot.txt and the reboot parameter do not enter into it.   *)
LEMMA IInvOther ==
    ASSUME IInv, TypeOK',
           UnsetKey \/ SetKey \/ SetRebootParam \/ TruncateAutoboot \/ WriteAutoboot
    PROVE  IInv'
  <1>1. UNCHANGED << rootfs, bootfs, validated, running, runImg >> /\ job # Idle
    BY DEF UnsetKey, SetKey, SetRebootParam, TruncateAutoboot, WriteAutoboot, At, disk, power
  <1>2. ValidatedBootable' /\ FallbackKept' /\ RunningIntact'
    BY <1>1 DEF IInv, ValidatedBootable, FallbackKept, RunningIntact, Bootable
  <1>3. CASE job' = Idle
    BY <1>1, <1>2, <1>3
       DEF IInv, JobShape, JobSlot, TargetWithdrawn, RunningValidated, Idle
  <1>4. CASE UnsetKey
    <2>1. /\ job.pc = "unset" /\ job.task \in {"upgrade", "prevent-revert"}
          /\ job.task = "prevent-revert" => job.i \in {2, 3}
      BY <1>1, <1>4 DEF UnsetKey, At, IInv, TypeOK, Jobs, JobShape
    <2>2. /\ job'.task = job.task /\ job'.slot = job.slot /\ job'.img = job.img
          /\ \/ job'.pc = "unset" /\ job'.i = job.i + 1 /\ (job.task = "upgrade" \/ job.i < 3)
             \/ job'.pc = "mkfs" /\ job.task = "upgrade"
             \/ job'.pc = "invalidate" /\ job.task = "prevent-revert"
      BY <1>4, <2>1 DEF UnsetKey, GoTo, GoToKey, Upgrading
    <2>3. JobShape'
      BY <2>1, <2>2 DEF IInv, JobShape
    <2> QED
      BY <1>1, <1>2, <2>1, <2>2, <2>3
         DEF IInv, JobSlot, TargetWithdrawn, RunningValidated
  <1>5. CASE SetKey
    <2>1. /\ job.pc = "set" /\ job.task = "upgrade"
          /\ job'.task = job.task /\ job'.slot = job.slot /\ job'.img = job.img
          /\ job'.pc \in {"set", "param"}
      BY <1>1, <1>5 DEF SetKey, At, GoTo, GoToKey, IInv, TypeOK, Jobs, JobShape
    <2> QED
      BY <1>1, <1>2, <2>1
         DEF IInv, JobShape, JobSlot, TargetWithdrawn, RunningValidated
  <1>6. CASE (TruncateAutoboot \/ WriteAutoboot) /\ job' # Idle
    <2>1. /\ job.pc \in {"truncate", "autoboot"}
          /\ job.task \in {"validate", "revert", "prevent-revert"}
      BY <1>1, <1>6 DEF TruncateAutoboot, WriteAutoboot, At, IInv, TypeOK, Jobs, JobShape
    <2>2. /\ job'.task = job.task /\ job'.slot = job.slot
          /\ \/ job'.pc = "autoboot"
             \/ job'.pc = "validate" /\ job.task # "revert"
      BY <1>6 DEF TruncateAutoboot, WriteAutoboot, GoTo, GoToKey
    <2> QED
      BY <1>1, <1>2, <2>1, <2>2
         DEF IInv, JobShape, JobSlot, TargetWithdrawn, RunningValidated
  <1> QED
    BY <1>3, <1>4, <1>5, <1>6 DEF SetRebootParam

(* The partitions that change are those of a slot that is neither running  *)
(* nor validated.                                                          *)
LEMMA IInvContent ==
    ASSUME IInv, TypeOK',
           \/ MkfsBoot \/ TrimRootfs \/ TrimBoot \/ WriteBootFiles
           \/ WriteRootfsBegin \/ WriteRootfsEnd
    PROVE  IInv'
  <1>1. /\ job # Idle
        /\ \/ job.task = "upgrade" /\ job.pc \in {"mkfs", "trim", "bootfiles", "write", "writing"}
           \/ job.task = "prevent-revert" /\ job.pc \in {"trim", "trimboot"}
    BY DEF MkfsBoot, TrimRootfs, TrimBoot, WriteBootFiles, WriteRootfsBegin,
           WriteRootfsEnd, At, IInv, TypeOK, Jobs, JobShape
  <1>2. /\ job.slot \in Slot /\ running \in Slot /\ running # job.slot
        /\ validated[job.slot] # "1"
    BY <1>1, TargetSpare DEF IInv, TargetWithdrawn
  <1>3. /\ \A s \in Slot : s # job.slot => rootfs'[s] = rootfs[s] /\ bootfs'[s] = bootfs[s]
        /\ UNCHANGED << validated, running, runImg >>
    BY <1>2 DEF MkfsBoot, TrimRootfs, TrimBoot, WriteBootFiles, WriteRootfsBegin,
                WriteRootfsEnd, IInv, TypeOK, power
  <1>4. \/ job' = Idle
        \/ /\ job'.task = job.task /\ job'.slot = job.slot /\ job'.img = job.img
           /\ \/ /\ job.task = "upgrade"
                 /\ job'.pc \in {"trim", "bootfiles", "write", "writing", "set"}
              \/ job.task = "prevent-revert" /\ job'.pc = "trimboot"
    BY <1>1 DEF MkfsBoot, TrimRootfs, TrimBoot, WriteBootFiles, WriteRootfsBegin,
                WriteRootfsEnd, At, GoTo, GoToKey, Upgrading
  <1>5. ValidatedBootable' /\ FallbackKept' /\ RunningIntact'
    BY <1>2, <1>3 DEF IInv, ValidatedBootable, FallbackKept, RunningIntact, Bootable
  <1>6. JobShape' /\ JobSlot' /\ TargetWithdrawn' /\ RunningValidated'
    BY <1>1, <1>2, <1>3, <1>4
       DEF IInv, JobShape, JobSlot, TargetWithdrawn, RunningValidated, Idle
  <1> QED
    BY <1>5, <1>6 DEF IInv

(* The invariant is inductive.                                             *)
LEMMA IInvNext == IInv /\ [Next]_vars => IInv'
  <1> SUFFICES ASSUME IInv, [Next]_vars PROVE IInv'
    OBVIOUS
  <1>1. TypeOK'
    BY TypeNext DEF IInv
  <1>2. CASE UNCHANGED vars
    BY <1>1, <1>2
       DEF IInv, JobShape, JobSlot, RunningIntact, ValidatedBootable, FallbackKept,
           TargetWithdrawn, RunningValidated, Bootable, vars, disk, power
  <1> QED
    BY <1>1, <1>2, IInvPower, IInvStart, IInvInvalidate, IInvValidate, IInvOther,
       IInvContent DEF Next, JobStep

(* The inductive invariant holds in every reachable state.                 *)
THEOREM Inductive == Spec => []IInv
  BY IInvInit, IInvNext, PTL DEF Spec

(* Every reachable state of the tryboot model is well typed.               *)
THEOREM TypeCorrect == Spec => []TypeOK
  <1>1. IInv => TypeOK
    BY DEF IInv
  <1> QED
    BY <1>1, Inductive, PTL

(* No task ever writes the rootfs of the running system, with or without   *)
(* reboots between tasks and wherever tasks are cut.                       *)
THEOREM RunningSpared == Spec => []RunningSlotUntouched
  <1>1. IInv => RunningSlotUntouched
    BY DEF IInv, RunningIntact, RunningSlotUntouched
  <1> QED
    BY <1>1, Inductive, PTL

(* A slot that revert may make the default can be booted.                  *)
THEOREM RevertsToBootable == Spec => []ValidatedBootable
  <1>1. IInv => ValidatedBootable
    BY DEF IInv
  <1> QED
    BY <1>1, Inductive, PTL

(* There is always a validated slot to fall back to.                       *)
THEOREM AlwaysFallback == Spec => []FallbackKept
  <1>1. IInv => FallbackKept
    BY DEF IInv
  <1> QED
    BY <1>1, Inductive, PTL

(***************************************************************************)
(* Where the upgrade tasks check the architecture too.                     *)
(***************************************************************************)

(* The factory image is for its own board.                                 *)
LEMMA BoardInit == Init => BoardInv
  <1> SUFFICES ASSUME Init PROVE BoardInv
    OBVIOUS
  <1>1. OnlyBoardFirmware
    BY ImagesAssumption DEF Init, OnlyBoardFirmware, Compatible, Slot
  <1>2. \A s \in Slot : /\ meta[s]["platform"] \in {None, PlatformOf[FactoryImage]}
                        /\ meta[s]["architecture"] \in {None, ArchOf[FactoryImage]}
    BY ImagesAssumption, MetaOfFacts DEF Init, Key
  <1> QED
    BY <1>1, <1>2 DEF Init, BoardInv, Upgrading, Idle

(* An upgrade whose requirements hold is for the factory image's board, so *)
(* what it writes and records is too.                                      *)
LEMMA BoardNext ==
    ASSUME ChecksArch = TRUE
    PROVE  IInv /\ BoardInv /\ [Next]_vars => BoardInv'
  <1> SUFFICES ASSUME IInv, BoardInv, [Next]_vars PROVE BoardInv'
    OBVIOUS
  <1>1. ASSUME NEW s \in Slot, NEW img \in Images, StartUpgrade(s, img) PROVE BoardInv'
    <2>1. /\ UNCHANGED disk /\ job'.img = img
          /\ running \in Slot /\ Matches(running, img)
      BY <1>1, SlotFacts DEF StartUpgrade, Start, CanStart, IInv, TypeOK
    <2>2. Compatible(img, FactoryImage)
      BY <2>1, ImagesAssumption DEF BoardInv, Matches, Compatible
    <2> QED
      BY <2>1, <2>2 DEF BoardInv, OnlyBoardFirmware, Compatible, disk
  <1>2. CASE SetKey
    <2>1. /\ job.slot \in Slot /\ KeyOrder[job.i] \in Key /\ Upgrading /\ job.img \in Images
      BY <1>2, KeyOrderFacts DEF SetKey, At, IInv, TypeOK, Jobs, JobShape, Upgrading
    <2>2. /\ MetaOf(job.img)["platform"] = PlatformOf[FactoryImage]
          /\ MetaOf(job.img)["architecture"] = ArchOf[FactoryImage]
      BY <2>1, MetaOfFacts DEF BoardInv, Compatible
    <2>3. \A s \in Slot : /\ meta'[s]["platform"] \in {None, PlatformOf[FactoryImage]}
                          /\ meta'[s]["architecture"] \in {None, ArchOf[FactoryImage]}
      BY <1>2, <2>1, <2>2 DEF SetKey, IInv, TypeOK, BoardInv, Key
    <2> QED
      BY <1>2, <2>3 DEF SetKey, BoardInv, OnlyBoardFirmware, Compatible, Upgrading, GoTo, GoToKey
  <1>3. CASE UnsetKey
    <2>1. /\ job.slot \in Slot /\ KeyOrder[job.i] \in Key
      BY KeyOrderFacts DEF IInv, TypeOK, Jobs
    <2>2. \A s \in Slot : /\ meta'[s]["platform"] \in {None, PlatformOf[FactoryImage]}
                          /\ meta'[s]["architecture"] \in {None, ArchOf[FactoryImage]}
      BY <1>3, <2>1 DEF UnsetKey, IInv, TypeOK, BoardInv, Key
    <2> QED
      BY <1>3, <2>2
         DEF UnsetKey, BoardInv, OnlyBoardFirmware, Compatible, Upgrading, GoTo, GoToKey
  <1>4. CASE TrimRootfs \/ WriteRootfsBegin \/ WriteRootfsEnd
    <2>1. job.slot \in Slot /\ (job.pc = "writing" /\ job # Idle => Upgrading)
      BY DEF IInv, TypeOK, Jobs, JobShape, Upgrading
    <2>2. OnlyBoardFirmware'
      BY <1>4, <2>1, ImagesAssumption
         DEF TrimRootfs, WriteRootfsBegin, WriteRootfsEnd, At, IInv, TypeOK, BoardInv,
             OnlyBoardFirmware, Compatible
    <2>3. UNCHANGED meta /\ job'.task = job.task /\ job'.img = job.img
      BY <1>4 DEF TrimRootfs, WriteRootfsBegin, WriteRootfsEnd, GoTo, GoToKey
    <2> QED
      BY <2>2, <2>3 DEF BoardInv, Compatible, Upgrading
  <1>5. CASE ~ (SetKey \/ UnsetKey \/ TrimRootfs \/ WriteRootfsBegin \/ WriteRootfsEnd
                \/ \E s \in Slot, img \in Images : StartUpgrade(s, img))
    <2>1. UNCHANGED << rootfs, meta >>
      BY <1>5 DEF Next, JobStep, vars, disk, Boot, TryFails, Reboot, PowerCut, Abort,
                  StartValidate, StartRevert, StartPreventRevert, Start, Invalidate,
                  MkfsBoot, TrimBoot, WriteBootFiles, SetRebootParam, TruncateAutoboot,
                  WriteAutoboot, SetValidated
    <2>2. job'.task = "upgrade" => job'.img = job.img /\ Upgrading
      BY <1>5 DEF Next, JobStep, vars, disk, Boot, TryFails, Reboot, PowerCut, Abort,
                  StartValidate, StartRevert, StartPreventRevert, Start, Invalidate,
                  MkfsBoot, TrimBoot, WriteBootFiles, SetRebootParam, TruncateAutoboot,
                  WriteAutoboot, SetValidated, GoTo, GoToKey, Idle, Upgrading
    <2> QED
      BY <2>1, <2>2 DEF BoardInv, OnlyBoardFirmware, Compatible, Upgrading
  <1> QED
    BY <1>1, <1>2, <1>3, <1>4, <1>5

(* Where both are checked, firmware for another platform or architecture   *)
(* never reaches a slot.                                                   *)
THEOREM BoardFirmware ==
    ASSUME ChecksArch = TRUE
    PROVE  Spec => []OnlyBoardFirmware
  <1>1. BoardInv => OnlyBoardFirmware
    BY DEF BoardInv
  <1> QED
    BY <1>1, BoardInit, BoardNext, Inductive, PTL DEF Spec

(***************************************************************************)
(* Where no task stops while it changes the default slot and the operator  *)
(* reboots after an upgrade or a revert.                                   *)
(***************************************************************************)

(* The factory disk.                                                       *)
LEMMA CarefulInit == Init => CarefulInv
  <1> SUFFICES ASSUME Init PROVE CarefulInv
    OBVIOUS
  <1>1. /\ autoboot = "a" /\ running = "none" /\ job = Idle
        /\ ~ param /\ ~ try /\ ~ switched
        /\ validated["a"] = "1" /\ validated["b"] = None
        /\ rootfs["a"] = FactoryImage /\ bootfs["a"] = FactoryImage
        /\ meta["a"]["platform"] = PlatformOf[FactoryImage]
        /\ meta["a"]["architecture"] = ArchOf[FactoryImage]
    BY ImagesAssumption, MetaOfFacts DEF Init, Slot
  <1>2. ValidatedIntact
    BY <1>1, ImagesAssumption DEF ValidatedIntact, Complete, Matches, Slot
  <1> QED
    BY <1>1, <1>2
       DEF CarefulInv, Phases, RunningComplete, TrialIntact, DefaultValidated,
           RunsDefault, RevertTarget, Progress, Upgrading, Idle, Slot

(* What a slot holds is as good as before where nothing of it changes.     *)
LEMMA SlotKept ==
    ASSUME NEW s \in Slot, rootfs'[s] = rootfs[s], bootfs'[s] = bootfs[s],
           meta'[s] = meta[s]
    PROVE  /\ Complete(s)' <=> Complete(s)
           /\ Matches(s, rootfs[s])' <=> Matches(s, rootfs[s])
           /\ Intact(s)' <=> Intact(s)
  BY DEF Complete, Matches, Intact

(* While the system is down, no task runs; a task has a settled world: no  *)
(* trial, no parameter, and no upgrade or revert to reboot for.            *)
LEMMA JobPhase ==
    ASSUME IInv, CarefulInv
    PROVE  /\ running = "none" => job = Idle
           /\ job # Idle => ~ try /\ ~ param /\ ~ switched
  BY SlotFacts DEF IInv, JobSlot, TypeOK, Jobs, CarefulInv, Phases

(* The firmware boots the default slot, or the slot to try.                *)
LEMMA CarefulBoot ==
    ASSUME IInv, CarefulInv, Boot
    PROVE  CarefulInv'
  <1>1. /\ running = "none" /\ job = Idle /\ UNCHANGED << disk, param, job >> /\ ~ param
        /\ ~ try' /\ ~ switched' /\ running' = BootSlot
    BY JobPhase DEF Boot, CarefulInv, Phases
  <1>2. /\ autoboot \in Slot /\ validated[autoboot] = "1"
        /\ ~ Dismantled(autoboot)
    BY <1>1 DEF CarefulInv, DefaultValidated, Dismantled, Idle
  <1>3. /\ running' \in Slot
        /\ Intact(running')
        /\ validated[running'] = "1" => running' = autoboot
    <2>1. CASE try
      BY <1>1, <1>2, <2>1, SlotFacts DEF CarefulInv, TrialIntact, BootSlot
    <2>2. CASE ~ try
      BY <1>1, <1>2, <2>2 DEF CarefulInv, ValidatedIntact, Intact, BootSlot
    <2> QED
      BY <2>1, <2>2
  <1>4. RunningComplete'
    BY <1>1, <1>3 DEF RunningComplete, Intact, Complete, Matches, disk
  <1>5. ValidatedIntact'
    BY <1>1 DEF CarefulInv, ValidatedIntact, Dismantled, Complete, Matches, disk
  <1>6. DefaultValidated' /\ RunsDefault'
    BY <1>1, <1>2, <1>3 DEF DefaultValidated, RunsDefault, disk
  <1> QED
    BY <1>1, <1>4, <1>5, <1>6
       DEF CarefulInv, Phases, TrialIntact, RevertTarget, Progress, Upgrading, Idle, disk

(* The board goes down between tasks or in the middle of one, or a task    *)
(* stops alone.                                                            *)
LEMMA CarefulDown ==
    ASSUME CutsInSwitch = FALSE, IInv, CarefulInv,
           TryFails \/ Reboot \/ PowerCut \/ Abort
    PROVE  CarefulInv'
  <1>1. /\ UNCHANGED << disk, switched >> /\ job' = Idle
        /\ ~ Switching
        /\ running' \in {running, "none"}
    BY JobPhase DEF TryFails, Reboot, PowerCut, Abort, MayStop, power, Switching, Idle
  <1>2. /\ ~ (job # Idle /\ job.pc \in {"autoboot", "validate"})
        /\ \A s \in Slot : ~ Dismantled(s)
    BY <1>1 DEF IInv, TypeOK, Jobs, JobShape, Switching, Dismantled
  <1>3. Phases'
    BY <1>1, JobPhase DEF TryFails, Reboot, PowerCut, Abort, power, CarefulInv, Phases
  <1>4. TrialIntact'
    <2>1. param' \/ try' => param \/ try
      BY DEF TryFails, Reboot, PowerCut, Abort, power
    <2> QED
      BY <1>1, <2>1
         DEF CarefulInv, TrialIntact, Intact, Complete, Matches, disk
  <1>5. ValidatedIntact' /\ RunningComplete'
    BY <1>1, <1>2
       DEF CarefulInv, ValidatedIntact, RunningComplete, Intact, Complete, Matches, disk
  <1>6. DefaultValidated' /\ RunsDefault'
    BY <1>1, <1>2 DEF CarefulInv, DefaultValidated, RunsDefault, disk
  <1> QED
    BY <1>1, <1>3, <1>4, <1>5, <1>6 DEF CarefulInv, RevertTarget, Progress, Upgrading, Idle

(* A task starts on a settled system and changes job alone.                *)
LEMMA CarefulStart ==
    ASSUME OperatorSkipsReboot = FALSE, IInv, CarefulInv, NEW s \in Slot,
           \/ \E img \in Images : StartUpgrade(s, img)
           \/ StartValidate(s) \/ StartRevert(s) \/ StartPreventRevert(s)
    PROVE  CarefulInv'
  <1>1. /\ UNCHANGED disk /\ UNCHANGED power
        /\ job = Idle /\ ~ switched /\ job' # Idle
        /\ job'.slot = s /\ job'.pc \in {"invalidate", "truncate"}
        /\ job'.task = "upgrade" => job'.pc = "invalidate"
        /\ job'.task = "prevent-revert" => job'.pc = "truncate"
        /\ job'.task = "revert" => validated[s] = "1"
    BY DEF StartUpgrade, StartValidate, StartRevert, StartPreventRevert, Start, CanStart, Idle
  <1>2. Phases' /\ RevertTarget' /\ Progress'
    BY <1>1 DEF CarefulInv, Phases, RevertTarget, Progress, Upgrading, disk, power
  <1>3. TrialIntact' /\ RunningComplete'
    BY <1>1 DEF CarefulInv, TrialIntact, RunningComplete, Intact, Complete, Matches, disk, power
  <1>4. ValidatedIntact'
    BY <1>1
       DEF CarefulInv, ValidatedIntact, Dismantled, Idle, Complete, Matches, disk
  <1>5. DefaultValidated' /\ RunsDefault'
    BY <1>1 DEF CarefulInv, DefaultValidated, RunsDefault, disk, power
  <1> QED
    BY <1>2, <1>3, <1>4, <1>5 DEF CarefulInv

(* Operations on the partitions and the metadata of the target of an       *)
(* upgrade or of prevent-revert leave the running slot, which is the       *)
(* default, as it is; the target is not validated, or it is dismantled.    *)
LEMMA CarefulTarget ==
    ASSUME IInv, IInv', CarefulInv,
           \/ UnsetKey \/ MkfsBoot \/ TrimRootfs \/ TrimBoot \/ WriteBootFiles
           \/ WriteRootfsBegin \/ WriteRootfsEnd \/ SetKey
    PROVE  CarefulInv'
  <1>1. /\ job # Idle /\ ~ try /\ ~ param /\ ~ switched
        /\ \/ /\ job.task = "upgrade"
              /\ job.pc \in {"unset", "mkfs", "trim", "bootfiles", "write", "writing", "set"}
           \/ job.task = "prevent-revert" /\ job.pc \in {"unset", "trim", "trimboot"}
    BY JobPhase DEF UnsetKey, MkfsBoot, TrimRootfs, TrimBoot, WriteBootFiles,
           WriteRootfsBegin, WriteRootfsEnd, SetKey, At, IInv, TypeOK, Jobs, JobShape
  <1>2. /\ job.slot \in Slot /\ running \in Slot /\ running # "none" /\ running # job.slot
        /\ \A s \in Slot : s = running \/ s = job.slot
        /\ validated[running] = "1" /\ autoboot = running
        /\ validated[job.slot] = "1" => job.task = "prevent-revert" /\ job.pc = "unset"
    BY <1>1, TargetSpare, SlotFacts
       DEF IInv, RunningValidated, TargetWithdrawn, CarefulInv, RunsDefault
  <1>3. /\ UNCHANGED << validated, autoboot, power >>
        /\ rootfs'[running] = rootfs[running] /\ bootfs'[running] = bootfs[running]
        /\ meta'[running] = meta[running]
    BY <1>2 DEF UnsetKey, MkfsBoot, TrimRootfs, TrimBoot, WriteBootFiles,
           WriteRootfsBegin, WriteRootfsEnd, SetKey, IInv, TypeOK
  <1>4. \/ job' = Idle
        \/ /\ job'.task = job.task /\ job'.slot = job.slot /\ job'.img = job.img
           /\ job'.pc \notin {"autoboot", "validate"}
           /\ job.pc = "unset" /\ job.task = "prevent-revert" =>
                  job'.pc \in {"unset", "invalidate"}
    BY <1>1 DEF UnsetKey, MkfsBoot, TrimRootfs, TrimBoot, WriteBootFiles,
           WriteRootfsBegin, WriteRootfsEnd, SetKey, At, GoTo, GoToKey, Upgrading
  <1>5. Phases' /\ TrialIntact' /\ RevertTarget'
    BY <1>1, <1>2, <1>3, <1>4 DEF CarefulInv, Phases, TrialIntact, RevertTarget, power, Idle
  <1>6. Intact(running)' /\ RunningComplete'
    BY <1>2, <1>3, SlotKept
       DEF CarefulInv, RunningComplete, Intact, Complete, Matches, power
  <1>7. ValidatedIntact'
    <2> SUFFICES ASSUME NEW s \in Slot, validated'[s] = "1"
                 PROVE  Complete(s)' /\ (~ Dismantled(s)' => Matches(s, rootfs[s])')
      BY DEF ValidatedIntact
    <2>1. CASE s = running
      BY <1>2, <1>3, <2>1, SlotKept, <1>6 DEF CarefulInv, RunningComplete, Intact
    <2>2. CASE s = job.slot
      <3>1. UnsetKey /\ job.task = "prevent-revert" /\ job.pc = "unset" /\ Complete(s)
        BY <1>1, <1>2, <1>3, <2>2 DEF MkfsBoot, TrimRootfs, TrimBoot, WriteBootFiles,
             WriteRootfsBegin, WriteRootfsEnd, SetKey, At, CarefulInv, ValidatedIntact
      <3>2. Complete(s)'
        BY <3>1 DEF UnsetKey, Complete
      <3>3. Dismantled(s)'
        BY <2>2, <3>1 DEF UnsetKey, GoTo, GoToKey, Upgrading, Dismantled
      <3> QED
        BY <3>2, <3>3
    <2> QED
      BY <1>2, <2>1, <2>2
  <1>8. DefaultValidated' /\ RunsDefault'
    BY <1>2, <1>3, <1>4 DEF DefaultValidated, RunsDefault, power
  <1>9. Progress'
    <2> SUFFICES ASSUME job'.task = "upgrade" PROVE Progress'
      BY DEF Progress, Upgrading
    <2>1. /\ job.task = "upgrade" /\ job'.slot = job.slot /\ job'.img = job.img
          /\ job.img \in Images /\ job.i \in 1 .. 4
      BY <1>4 DEF Idle, IInv, TypeOK, Jobs, JobShape
    <2>2. CASE UnsetKey \/ MkfsBoot \/ TrimRootfs \/ TrimBoot
      <3>1. job'.pc \in {"unset", "mkfs", "trim", "bootfiles"}
        BY <1>1, <2>1, <2>2 DEF UnsetKey, MkfsBoot, TrimRootfs, TrimBoot, GoTo, GoToKey, Upgrading,
               At, Idle
      <3> QED
        BY <3>1 DEF Progress
    <2>3. CASE WriteBootFiles
      BY <2>1, <2>3 DEF WriteBootFiles, Progress, GoTo, GoToKey, IInv, TypeOK, Jobs
    <2>4. CASE WriteRootfsBegin \/ WriteRootfsEnd
      BY <2>1, <2>4 DEF WriteRootfsBegin, WriteRootfsEnd, At, CarefulInv, Progress, Upgrading, GoTo,
             GoToKey, IInv, TypeOK, Jobs
    <2>5. CASE SetKey
      <3>1. /\ job.pc = "set" /\ UNCHANGED << bootfs, rootfs >>
            /\ meta' = [meta EXCEPT ![job.slot] =
                  [@ EXCEPT ![KeyOrder[job.i]] = MetaOf(job.img)[KeyOrder[job.i]]]]
            /\ IF job.i < 4 THEN job'.pc = "set" /\ job'.i = job.i + 1 ELSE job'.pc = "param"
        BY <2>5 DEF SetKey, At, GoTo, GoToKey
      <3>2. meta'[job.slot] =
               [meta[job.slot] EXCEPT ![KeyOrder[job.i]] = MetaOf(job.img)[KeyOrder[job.i]]]
        BY <1>2, <3>1 DEF IInv, TypeOK
      <3>3. /\ job.i = 2 => meta'[job.slot]["platform"] = PlatformOf[job.img]
            /\ job.i # 2 => meta'[job.slot]["platform"] = meta[job.slot]["platform"]
            /\ job.i = 3 => meta'[job.slot]["architecture"] = ArchOf[job.img]
            /\ job.i # 3 => meta'[job.slot]["architecture"] = meta[job.slot]["architecture"]
        <4>1. meta[job.slot] \in [Key -> KeyValue \cup {None}]
          BY <1>2 DEF IInv, TypeOK
        <4>2. /\ job.i = 1 => KeyOrder[job.i] = "version"
              /\ job.i = 2 => KeyOrder[job.i] = "platform"
              /\ job.i = 3 => KeyOrder[job.i] = "architecture"
              /\ job.i = 4 => KeyOrder[job.i] = "uuid"
              /\ job.i = 1 \/ job.i = 2 \/ job.i = 3 \/ job.i = 4
          BY <2>1, KeyOrderFacts
        <4> QED
          BY <2>1, <3>2, <4>1, <4>2, MetaOfFacts DEF Key
      <3> QED
        BY <2>1, <3>1, <3>3 DEF CarefulInv, Progress, Upgrading
    <2> QED
      BY <2>2, <2>3, <2>4, <2>5
  <1> QED
    BY <1>5, <1>6, <1>7, <1>8, <1>9 DEF CarefulInv

(* The flag of the slot that is not running goes.                          *)
LEMMA CarefulInvalidate ==
    ASSUME IInv, CarefulInv, Invalidate
    PROVE  CarefulInv'
  <1>1. /\ job # Idle /\ job.pc = "invalidate" /\ job.task \in {"upgrade", "prevent-revert"}
        /\ ~ try /\ ~ param /\ ~ switched
    BY JobPhase DEF Invalidate, At, IInv, TypeOK, Jobs, JobShape
  <1>2. /\ job.slot \in Slot /\ running \in Slot /\ running # "none" /\ running # job.slot
        /\ validated[running] = "1" /\ autoboot = running
    BY <1>1, TargetSpare DEF IInv, RunningValidated, CarefulInv, RunsDefault
  <1>3. /\ validated'[job.slot] = "0" /\ validated'[running] = "1"
        /\ \A s \in Slot : validated'[s] = "1" => validated[s] = "1" /\ s # job.slot
        /\ UNCHANGED << rootfs, bootfs, autoboot, meta, power >>
    BY <1>2 DEF Invalidate, IInv, TypeOK
  <1>4. /\ job'.task = job.task /\ job'.slot = job.slot
        /\ job'.pc \in {"unset", "trim"}
    BY DEF Invalidate, GoTo, GoToKey
  <1>5. ValidatedIntact' /\ RunningComplete'
    BY <1>3
       DEF CarefulInv, ValidatedIntact, RunningComplete, Dismantled, Intact, Complete, Matches,
           power
  <1>6. DefaultValidated' /\ RunsDefault'
    BY <1>2, <1>3, <1>4 DEF DefaultValidated, RunsDefault, power
  <1> QED
    BY <1>1, <1>3, <1>4, <1>5, <1>6
       DEF CarefulInv, Phases, TrialIntact, RevertTarget, Progress, Upgrading, power

(* The last operation of an upgrade: the slot to try is complete.          *)
LEMMA CarefulParam ==
    ASSUME IInv, CarefulInv, SetRebootParam
    PROVE  CarefulInv'
  <1>1. /\ job # Idle /\ job.pc = "param" /\ Upgrading /\ job.img \in Images
        /\ ~ try /\ ~ param /\ ~ switched
    BY JobPhase DEF SetRebootParam, At, IInv, TypeOK, Jobs, JobShape, Upgrading
  <1>2. /\ job.slot \in Slot /\ running \in Slot /\ running # "none"
        /\ Other(running) = job.slot /\ running # job.slot
        /\ validated[running] = "1" /\ autoboot = running
        /\ validated[job.slot] # "1"
    BY <1>1, TargetSpare, SlotFacts
       DEF IInv, RunningValidated, TargetWithdrawn, CarefulInv, RunsDefault, Upgrading
  <1>3. Intact(job.slot)
    BY <1>1, <1>2, SlotFacts DEF CarefulInv, Progress, Intact, Complete, Matches
  <1>4. UNCHANGED << disk, running, try >> /\ param' /\ switched' /\ job' = Idle
    BY DEF SetRebootParam
  <1>5. TrialIntact'
    BY <1>2, <1>3, <1>4, SlotFacts DEF TrialIntact, Intact, Complete, Matches, disk
  <1>6. ValidatedIntact' /\ RunningComplete'
    BY <1>1, <1>4
       DEF CarefulInv, ValidatedIntact, RunningComplete, Dismantled, Intact, Complete, Matches,
           disk, Upgrading
  <1>7. DefaultValidated' /\ RunsDefault'
    BY <1>2, <1>4 DEF DefaultValidated, RunsDefault, disk
  <1> QED
    BY <1>1, <1>2, <1>4, <1>5, <1>6, <1>7
       DEF CarefulInv, Phases, RevertTarget, Progress, Upgrading, Idle

(* The default slot is empty for a moment, is the task's slot after it,    *)
(* and that slot is validated, or about to be and running.                 *)
LEMMA CarefulSwitch ==
    ASSUME IInv, CarefulInv, TruncateAutoboot \/ WriteAutoboot
    PROVE  CarefulInv'
  <1>1. /\ job # Idle /\ job.pc \in {"truncate", "autoboot"}
        /\ job.task \in {"validate", "revert", "prevent-revert"}
        /\ ~ try /\ ~ param /\ ~ switched
    BY JobPhase DEF TruncateAutoboot, WriteAutoboot, At, IInv, TypeOK, Jobs, JobShape
  <1>2. /\ job.slot \in Slot /\ running \in Slot /\ running # "none" /\ Default \in Slot
        /\ job.task # "revert" => Default = running
        /\ job.task = "revert" => Default = job.slot /\ validated[job.slot] = "1"
    BY <1>1, TargetSpare DEF Default, CarefulInv, RevertTarget
  <1>3. /\ UNCHANGED << bootfs, rootfs, validated, meta, running, param, try >>
        /\ \/ /\ job'.task = job.task /\ job'.slot = job.slot /\ ~ switched' /\ job' # Idle
              /\ \/ job'.pc = "autoboot"
                 \/ job'.pc = "validate" /\ job.task # "revert" /\ autoboot' = Default
           \/ job' = Idle /\ switched' /\ job.task = "revert" /\ autoboot' = Default
    BY <1>1 DEF TruncateAutoboot, WriteAutoboot, GoTo, GoToKey, Idle, power
  <1>4. ValidatedIntact' /\ RunningComplete'
    BY <1>1, <1>3
       DEF CarefulInv, ValidatedIntact, RunningComplete, Dismantled, Intact, Complete, Matches
  <1>5. DefaultValidated' /\ RunsDefault'
    BY <1>2, <1>3 DEF DefaultValidated, RunsDefault
  <1> QED
    BY <1>1, <1>2, <1>3, <1>4, <1>5
       DEF CarefulInv, Phases, TrialIntact, RevertTarget, Progress, Upgrading, Idle

(* The running slot, which is the default now, gets its flag.              *)
LEMMA CarefulValidate ==
    ASSUME IInv, CarefulInv, SetValidated
    PROVE  CarefulInv'
  <1>1. /\ job # Idle /\ job.pc = "validate" /\ job.task \in {"validate", "prevent-revert"}
        /\ ~ try /\ ~ param /\ ~ switched
    BY JobPhase DEF SetValidated, At, IInv, TypeOK, Jobs, JobShape
  <1>2. /\ Default = running /\ running \in Slot /\ running # "none" /\ autoboot = running
        /\ Intact(running)
    BY <1>1, TargetSpare DEF CarefulInv, DefaultValidated, RunningComplete
  <1>3. /\ validated' = [validated EXCEPT ![running] = "1"]
        /\ validated'[running] = "1"
        /\ UNCHANGED << bootfs, rootfs, autoboot, meta, power >>
    BY <1>2 DEF SetValidated, IInv, TypeOK
  <1>4. \/ job' = Idle
        \/ job'.task = "prevent-revert" /\ job'.slot = job.slot /\ job'.pc = "unset"
    BY <1>1 DEF SetValidated, GoToKey
  <1>5. ValidatedIntact'
    <2> SUFFICES ASSUME NEW s \in Slot, validated'[s] = "1"
                 PROVE  Intact(s)'
      BY DEF ValidatedIntact, Intact
    <2>1. Intact(s)
      BY <1>1, <1>2, <1>3 DEF IInv, TypeOK, CarefulInv, ValidatedIntact, Dismantled, Intact
    <2> QED
      BY <1>3, <2>1, SlotKept
  <1>6. RunningComplete'
    BY <1>3 DEF CarefulInv, RunningComplete, Intact, Complete, Matches, power
  <1>7. DefaultValidated' /\ RunsDefault'
    BY <1>2, <1>3, <1>4 DEF DefaultValidated, RunsDefault, power
  <1> QED
    BY <1>1, <1>3, <1>4, <1>5, <1>6, <1>7
       DEF CarefulInv, Phases, TrialIntact, RevertTarget, Progress, Upgrading, Idle, power

(* Under the two assumptions the invariant is inductive.                   *)
LEMMA CarefulNext ==
    ASSUME CutsInSwitch = FALSE, OperatorSkipsReboot = FALSE
    PROVE  IInv /\ IInv' /\ CarefulInv /\ [Next]_vars => CarefulInv'
  <1> SUFFICES ASSUME IInv, IInv', CarefulInv, [Next]_vars PROVE CarefulInv'
    OBVIOUS
  <1>1. CASE UNCHANGED vars
    BY <1>1
       DEF CarefulInv, Phases, ValidatedIntact, RunningComplete, TrialIntact, DefaultValidated,
           RunsDefault, RevertTarget, Progress, Dismantled, Upgrading, Intact, Complete, Matches,
           vars, disk, power
  <1> QED
    BY <1>1, CarefulBoot, CarefulDown, CarefulStart, CarefulTarget, CarefulInvalidate,
       CarefulParam, CarefulSwitch, CarefulValidate DEF Next, JobStep

(* Tasks that are not cut while they change the default slot, followed by  *)
(* the reboots they call for, keep the careful invariant.                  *)
THEOREM Careful ==
    ASSUME CutsInSwitch = FALSE, OperatorSkipsReboot = FALSE
    PROVE  Spec => []CarefulInv
  BY CarefulInit, CarefulNext, Inductive, PTL DEF Spec

(* What follows from the two invariants in every state.                    *)
LEMMA CarefulConsequences ==
    ASSUME IInv, CarefulInv
    PROVE  /\ AlwaysBootable /\ UpgradeHarmless /\ ValidatedUpgradable
           /\ TrialRollsBack
  <1>1. AlwaysBootable
    <2> SUFFICES ASSUME running = "none" PROVE Complete(autoboot)
      BY DEF AlwaysBootable
    <2>1. autoboot \in Slot /\ validated[autoboot] = "1"
      BY JobPhase DEF CarefulInv, DefaultValidated
    <2> QED
      BY <2>1 DEF CarefulInv, ValidatedIntact
  <1>2. UpgradeHarmless
    <2> SUFFICES ASSUME Upgrading
                 PROVE  autoboot = Other(job.slot) /\ Complete(autoboot)
      BY DEF UpgradeHarmless
    <2>1. job # Idle /\ ~ switched /\ job.pc # "autoboot"
      BY JobPhase DEF Upgrading, Idle, IInv, JobShape
    <2>2. running = Other(job.slot) /\ running # "none" /\ validated[running] = "1"
      BY <2>1, TargetSpare DEF Upgrading, IInv, RunningValidated
    <2> QED
      BY <2>1, <2>2 DEF CarefulInv, RunsDefault, RunningComplete, Intact
  <1>3. ValidatedUpgradable
    BY DEF CarefulInv, ValidatedIntact, ValidatedUpgradable, Switching, Dismantled
  <1>4. TrialRollsBack
    <2> SUFFICES ASSUME running # "none", job = Idle, validated[running] = "0"
                 PROVE  /\ autoboot = Other(running) /\ validated[autoboot] = "1"
                        /\ Complete(autoboot)
      BY DEF TrialRollsBack
    <2>1. running \in Slot /\ autoboot \in Slot /\ validated[autoboot] = "1"
      BY DEF IInv, TypeOK, CarefulInv, DefaultValidated
    <2> QED
      BY <2>1, SlotFacts DEF CarefulInv, ValidatedIntact
  <1> QED
    BY <1>1, <1>2, <1>3, <1>4

(* However the board goes down, the default slot then holds one complete   *)
(* image.                                                                  *)
THEOREM DownBootable ==
    ASSUME CutsInSwitch = FALSE, OperatorSkipsReboot = FALSE
    PROVE  Spec => []AlwaysBootable
  BY CarefulConsequences, Inductive, Careful, PTL

(* At no operation of an upgrade does the default leave the complete slot  *)
(* that the upgrade started from.                                          *)
THEOREM HarmlessUpgrade ==
    ASSUME CutsInSwitch = FALSE, OperatorSkipsReboot = FALSE
    PROVE  Spec => []UpgradeHarmless
  BY CarefulConsequences, Inductive, Careful, PTL

(* Validating and reverting only ever lead to a slot from which the next   *)
(* upgrade will be accepted.                                               *)
THEOREM NoDeadEnd ==
    ASSUME CutsInSwitch = FALSE, OperatorSkipsReboot = FALSE
    PROVE  Spec => []ValidatedUpgradable
  BY CarefulConsequences, Inductive, Careful, PTL

(* A trial that ends in a crash goes back to a validated, complete slot.   *)
THEOREM TrialsEnd ==
    ASSUME CutsInSwitch = FALSE, OperatorSkipsReboot = FALSE
    PROVE  Spec => []TrialRollsBack
  BY CarefulConsequences, Inductive, Careful, PTL
=============================================================================
