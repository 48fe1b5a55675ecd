---------------------------- MODULE GrubABProofs ----------------------------
(***************************************************************************)
(* Theorems about GrubAB, for every set of images and every choice of the  *)
(* environment constants, checked by TLAPS.                                *)
(***************************************************************************)
EXTENDS GrubABInv, TLAPS

(* The order of the metadata variables names each of them exactly once.    *)
LEMMA KeyOrderFacts ==
    /\ KeyOrder[1] = "version" /\ KeyOrder[2] = "platform"
    /\ KeyOrder[3] = "architecture" /\ KeyOrder[4] = "uuid"
    /\ \A i \in 1 .. 4 : KeyOrder[i] \in Key
    /\ \A k \in Key : \E i \in 1 .. 4 : KeyOrder[i] = k
  BY DEF KeyOrder, Key

(* What an image's metadata looks like, and that none of it is unset.      *)
LEMMA MetaOfFacts ==
    ASSUME NEW img \in Images
    PROVE  /\ MetaOf(img) \in [Key -> KeyValue]
           /\ MetaOf(img)["platform"] = PlatformOf[img]
           /\ MetaOf(img)["architecture"] = ArchOf[img]
           /\ \A k \in Key : MetaOf(img)[k] # None
  BY ImagesAssumption DEF MetaOf, Key, KeyValue

(* There are exactly two slots and Other is an involution on them.         *)
LEMMA SlotFacts ==
    \A s \in Slot : Other(s) \in Slot /\ Other(s) # s /\ Other(Other(s)) = s
  BY DEF Slot, Other

(* The ways a task moves on keep the type of job.                         *)
LEMMA IdleJob == Idle \in Jobs
  BY DEF Idle, Jobs, Slot, PC

(* Likewise for moving on to another operation ...                         *)
LEMMA GoToJob == ASSUME job \in Jobs, NEW pc \in PC, GoTo(pc) PROVE job' \in Jobs
  BY DEF GoTo, Jobs

(* ... and for the next metadata variable of the same operation.           *)
LEMMA NextKeyJob ==
    ASSUME job \in Jobs, job.i # 4 PROVE [job EXCEPT !.i = @ + 1] \in Jobs
  <1>1. job.i \in 1 .. 4 /\ job.i + 1 \in 1 .. 4
    BY DEF Jobs
  <1> QED
    BY <1>1 DEF Jobs

(* Replacing one metadata value keeps the type of the environment.         *)
LEMMA MetaUpdate ==
    ASSUME meta \in [Slot -> [Key -> KeyValue \cup {None}]],
           NEW s \in Slot, NEW k \in Key, NEW v \in KeyValue \cup {None}
    PROVE  [meta EXCEPT ![s] = [@ EXCEPT ![k] = v]]
             \in [Slot -> [Key -> KeyValue \cup {None}]]
  OBVIOUS

(***************************************************************************)
(* Type correctness.                                                       *)
(***************************************************************************)

(* The disk the first installation leaves is well typed.                   *)
LEMMA TypeInit == Init => TypeOK
  <1> SUFFICES ASSUME Init PROVE TypeOK
    OBVIOUS
  <1>1. meta \in [Slot -> [Key -> KeyValue \cup {None}]]
    BY ImagesAssumption, MetaOfFacts DEF Init, InstalledDisk, Off
  <1>2. rootfs \in [Slot -> Images \cup {NoImage}]
    BY ImagesAssumption DEF Init, InstalledDisk, Off
  <1>3. validated \in [Slot -> {"0", "1", None}]
    BY DEF Init, InstalledDisk, Off
  <1> QED
    BY <1>1, <1>2, <1>3, IdleJob, GoToJob DEF Init, InstalledDisk, Off, TypeOK, Slot

(* Every step of a task keeps the types; JobShape is what makes the next   *)
(* metadata variable exist and the image of an upgrade an image.           *)
LEMMA TypeNext == TypeOK /\ JobShape /\ [Next]_vars => TypeOK'
  <1> SUFFICES ASSUME TypeOK, JobShape, [Next]_vars
               PROVE  TypeOK'
    OBVIOUS
  <1> USE DEF TypeOK, disk, power
  <1>pc. SwitchPC \subseteq PC
    BY DEF PC
  <1>job. job.slot \in Slot /\ job.pc \in PC /\ job.i \in 1 .. 4 /\ Other(job.slot) \in Slot
    BY SlotFacts DEF Jobs
  <1>1. CASE Boot \/ Reboot \/ PowerCut \/ Abort
    BY <1>1, IdleJob, GoToJob DEF Boot, Reboot, PowerCut, Abort, MayStop, Selected, Slot
  <1>2. ASSUME NEW s \in Slot, NEW img \in Images, StartUpgrade(s, img)
        PROVE  TypeOK'
    BY <1>2 DEF StartUpgrade, Start, PC, Jobs
  <1>3. ASSUME NEW s \in Slot, StartRevert(s)
        PROVE  TypeOK'
    BY <1>3 DEF StartRevert, Start, PC, SwitchPC, Jobs
  <1>4. ASSUME NEW s \in Slot, StartPreventRevert(s)
        PROVE  TypeOK'
    BY <1>4 DEF StartPreventRevert, Start, PC, Jobs
  <1>5. CASE Validate
    BY <1>5 DEF Validate
  <1>6. CASE UnsetKey
    <2>1. meta' \in [Slot -> [Key -> KeyValue \cup {None}]]
      BY <1>6, <1>job, KeyOrderFacts, MetaUpdate DEF UnsetKey
    <2>2. job' \in Jobs
      <3>1. CASE job.i = LastUnset
        BY <1>6, <3>1, GoToJob DEF UnsetKey, PC
      <3>2. CASE job.i # LastUnset
        BY <1>6, <3>2, NextKeyJob
           DEF UnsetKey, LastUnset, JobShape, At, Jobs, SwitchPC
      <3> QED
        BY <3>1, <3>2
    <2> QED
      BY <1>6, <2>1, <2>2 DEF UnsetKey
  <1>7. CASE TrimRootfs
    <2>1. job' \in Jobs
      BY <1>7, IdleJob, GoToJob DEF TrimRootfs, PC
    <2> QED
      BY <1>7, <2>1 DEF TrimRootfs
  <1>8. CASE WriteRootfsBegin \/ WriteRootfsEnd
    <2>1. job' \in Jobs
      BY <1>8, IdleJob, GoToJob DEF WriteRootfsBegin, WriteRootfsEnd, PC
    <2>2. job.img \in Images \cup {NoImage}
      BY DEF Jobs
    <2> QED
      BY <1>8, <2>1, <2>2 DEF WriteRootfsBegin, WriteRootfsEnd
  <1>9. CASE SetKey
    <2>1. MetaOf(job.img)[KeyOrder[job.i]] \in KeyValue \cup {None}
      BY <1>9, <1>job, KeyOrderFacts, MetaOfFacts DEF SetKey, At, JobShape, Jobs, SwitchPC
    <2>2. meta' \in [Slot -> [Key -> KeyValue \cup {None}]]
      BY <1>9, <1>job, <2>1, KeyOrderFacts, MetaUpdate DEF SetKey
    <2>3. job' \in Jobs
      BY <1>9, GoToJob, NextKeyJob DEF SetKey, PC, SwitchPC
    <2> QED
      BY <1>9, <2>2, <2>3 DEF SetKey
  <1>10. CASE DropGlobalValidated \/ SetTargetValidated \/ ClearOtherValidated
    <2>1. job' \in Jobs
      BY <1>10, GoToJob
         DEF DropGlobalValidated, SetTargetValidated, ClearOtherValidated, PC, SwitchPC
    <2> QED
      BY <1>10, <1>job, <2>1
         DEF DropGlobalValidated, SetTargetValidated, ClearOtherValidated
  <1>11. CASE SetActive \/ TruncateGrubenv \/ WriteGrubenv
    <2>1. job' \in Jobs
      BY <1>11, IdleJob, GoToJob
         DEF SetActive, TruncateGrubenv, WriteGrubenv, PC, SwitchPC
    <2> QED
      BY <1>11, <1>job, <2>1 DEF SetActive, TruncateGrubenv, WriteGrubenv
  <1>12. CASE UNCHANGED vars
    BY <1>12 DEF vars
  <1> QED
    BY <1>1, <1>2, <1>3, <1>4, <1>5, <1>6, <1>7, <1>8, <1>9, <1>10, <1>11, <1>12
       DEF Next, JobStep

(***************************************************************************)
(* The inductive invariant.                                                *)
(***************************************************************************)

(* The disk the first installation leaves satisfies the invariant.         *)
LEMMA IInvInit == Init => IInv
  <1> SUFFICES ASSUME Init PROVE IInv
    OBVIOUS
  <1>1. TypeOK
    BY TypeInit
  <1>2. /\ rootfs["a"] = FactoryImage /\ meta["a"] = MetaOf(FactoryImage)
        /\ rootfs["b"] = NoImage /\ \A k \in Key : meta["b"][k] = None
    BY DEF Init, InstalledDisk, Off, Slot
  <1>3. job = Idle /\ running = "none" /\ active = "a"
    BY DEF Init, InstalledDisk, Off
  <1>4. ActiveSlotUpgradable
    BY <1>2, <1>3, ImagesAssumption, MetaOfFacts DEF ActiveSlotUpgradable, Matches
  <1>5. OfferedSlotTruthful
    BY <1>2, ImagesAssumption DEF OfferedSlotTruthful, Slot, Key
  <1>6. OnlyBoardFirmware
    BY <1>2, ImagesAssumption DEF OnlyBoardFirmware, Slot, Compatible
  <1> QED
    BY <1>1, <1>3, <1>4, <1>5, <1>6
       DEF IInv, JobTargetsSpare, JobShape, JobProgress, RunImgKnown, At, Idle

\* The slot the tasks count on is untouched: the two invariants that do not
\* mention the task in progress carry over when only that changes.
LEMMA SameDisk ==
    ASSUME ActiveSlotUpgradable, OfferedSlotTruthful, OnlyBoardFirmware, UNCHANGED disk
    PROVE  ActiveSlotUpgradable' /\ OfferedSlotTruthful' /\ OnlyBoardFirmware'
  BY DEF ActiveSlotUpgradable, OfferedSlotTruthful, OnlyBoardFirmware, Matches, disk

(* Booting, rebooting, and cutting a task short at any operation keep it.  *)
LEMMA IInvPower ==
    ASSUME IInv, TypeOK', Boot \/ Reboot \/ PowerCut \/ Abort
    PROVE  IInv'
  <1>1. UNCHANGED disk /\ (job' = job \/ job' = Idle)
    BY DEF Boot, Reboot, PowerCut, Abort, MayStop
  <1>2. ActiveSlotUpgradable' /\ OfferedSlotTruthful' /\ OnlyBoardFirmware'
    BY <1>1, SameDisk DEF IInv
  <1>3. RunImgKnown'
    BY DEF IInv, RunImgKnown, Boot, Reboot, PowerCut, Abort, power
  <1>4. JobTargetsSpare' /\ JobShape' /\ JobProgress'
    BY <1>1 DEF IInv, JobTargetsSpare, JobShape, JobProgress, At, Matches, Idle, disk
  <1> QED
    BY <1>2, <1>3, <1>4 DEF IInv

(* An upgrade starts on the spare slot with an image for the same board:   *)
(* its requirements compare with the active slot, whose metadata is true.  *)
LEMMA IInvUpgrade ==
    ASSUME IInv, TypeOK', NEW s \in Slot, NEW img \in Images, StartUpgrade(s, img)
    PROVE  IInv'
  <1>1. /\ UNCHANGED disk /\ UNCHANGED power /\ active = Other(s)
        /\ job' = [task |-> "upgrade", slot |-> s, img |-> img, pc |-> "unset", i |-> 1]
    BY DEF StartUpgrade, Start
  <1>2. ActiveSlotUpgradable' /\ OfferedSlotTruthful' /\ OnlyBoardFirmware'
    BY <1>1, SameDisk DEF IInv
  <1>3. Compatible(img, FactoryImage)
    BY <1>1, SlotFacts
       DEF IInv, TypeOK, StartUpgrade, Matches, ActiveSlotUpgradable, OnlyBoardFirmware, Compatible
  <1>4. JobTargetsSpare' /\ JobShape' /\ JobProgress' /\ RunImgKnown'
    BY <1>1, <1>3
       DEF IInv, JobTargetsSpare, JobShape, JobProgress, RunImgKnown, At, disk, power, Compatible
  <1> QED
    BY <1>2, <1>4 DEF IInv

(* A revert starts only towards a slot that holds a matching image.        *)
LEMMA IInvRevert ==
    ASSUME IInv, TypeOK', NEW s \in Slot, StartRevert(s)
    PROVE  IInv'
  <1>1. /\ UNCHANGED disk /\ UNCHANGED power /\ active = Other(s)
        /\ job' = [task |-> "revert", slot |-> s, img |-> NoImage, pc |-> "activate", i |-> 1]
    BY DEF StartRevert, Start
  <1>2. ActiveSlotUpgradable' /\ OfferedSlotTruthful' /\ OnlyBoardFirmware'
    BY <1>1, SameDisk DEF IInv
  <1>3. rootfs[s] \in Images /\ Matches(s, rootfs[s])
    <2>1. /\ runImg \in Images /\ Matches(s, runImg)
      BY DEF StartRevert, CanStart, IInv, RunImgKnown
    <2>2. meta[s]["platform"] # None /\ meta[s]["architecture"] # None
      BY <2>1, ImagesAssumption DEF Matches
    <2> QED
      BY <2>2, MetaOfFacts DEF IInv, OfferedSlotTruthful, Matches, Key
  <1>4. JobTargetsSpare' /\ JobShape' /\ JobProgress' /\ RunImgKnown'
    BY <1>1, <1>3
       DEF IInv, JobTargetsSpare, JobShape, JobProgress, RunImgKnown, At, disk, power, SwitchPC, Matches
  <1> QED
    BY <1>2, <1>4 DEF IInv

(* prevent-revert starts on the spare slot.                                *)
LEMMA IInvPreventRevert ==
    ASSUME IInv, TypeOK', NEW s \in Slot, StartPreventRevert(s)
    PROVE  IInv'
  <1>1. /\ UNCHANGED disk /\ UNCHANGED power /\ active = Other(s)
        /\ job' = [task |-> "prevent-revert", slot |-> s, img |-> NoImage, pc |-> "unset", i |-> 2]
    BY DEF StartPreventRevert, Start
  <1>2. ActiveSlotUpgradable' /\ OfferedSlotTruthful' /\ OnlyBoardFirmware'
    BY <1>1, SameDisk DEF IInv
  <1>4. JobTargetsSpare' /\ JobShape' /\ JobProgress' /\ RunImgKnown'
    BY <1>1
       DEF IInv, JobTargetsSpare, JobShape, JobProgress, RunImgKnown, At, disk, power
  <1> QED
    BY <1>2, <1>4 DEF IInv

\* Steps that change neither a rootfs, nor the metadata, nor the active slot.
LEMMA IInvFlags ==
    ASSUME IInv, TypeOK',
           \/ Validate \/ DropGlobalValidated \/ SetTargetValidated
           \/ ClearOtherValidated \/ TruncateGrubenv \/ WriteGrubenv
           \/ UNCHANGED vars
    PROVE  IInv'
  <1>1. UNCHANGED << rootfs, active, meta, running, runImg >>
    BY DEF Validate, DropGlobalValidated, SetTargetValidated, ClearOtherValidated,
           TruncateGrubenv, WriteGrubenv, vars, disk, power
  <1>2. ActiveSlotUpgradable' /\ OfferedSlotTruthful' /\ OnlyBoardFirmware' /\ RunImgKnown'
    BY <1>1
       DEF IInv, ActiveSlotUpgradable, OfferedSlotTruthful, OnlyBoardFirmware, RunImgKnown, Matches
  <1>3. CASE job' = job
    BY <1>1, <1>2, <1>3
       DEF IInv, JobTargetsSpare, JobShape, JobProgress, At, Matches
  <1>4. CASE job' = Idle
    BY <1>1, <1>2, <1>4
       DEF IInv, JobTargetsSpare, JobShape, JobProgress, At, Matches, Idle
  <1>5. CASE DropGlobalValidated \/ SetTargetValidated \/ ClearOtherValidated \/ TruncateGrubenv
    <2>1. /\ job'.task = job.task /\ job'.slot = job.slot /\ job'.img = job.img
          /\ job # Idle
      BY <1>5 DEF DropGlobalValidated, SetTargetValidated, ClearOtherValidated,
                  TruncateGrubenv, GoTo, At
    <2>2. \/ job.pc \in {"dropglobal", "setvalid", "clearvalid"}
             /\ job'.pc \in {"setvalid", "clearvalid", "activate"}
          \/ job.pc = "truncate" /\ job'.pc = "grubenv"
      BY <1>5 DEF DropGlobalValidated, SetTargetValidated, ClearOtherValidated,
                  TruncateGrubenv, GoTo, At
    <2>3. JobTargetsSpare'
      BY <1>1, <2>1, <2>2 DEF IInv, JobTargetsSpare
    <2>4. JobShape'
      BY <2>1, <2>2 DEF IInv, JobShape, SwitchPC
    <2>5. JobProgress'
      BY <1>1, <2>1, <2>2 DEF IInv, JobProgress, At, Matches
    <2> QED
      BY <1>2, <2>3, <2>4, <2>5 DEF IInv
  <1> QED
    BY <1>3, <1>4, <1>5 DEF Validate, WriteGrubenv, vars

\* What the operations that write to the target slot leave alone.
LEMMA SpareOnly ==
    ASSUME IInv, job # Idle, job.pc \notin {"truncate", "grubenv"}
    PROVE  /\ job.slot \in Slot /\ active = Other(job.slot) /\ active # job.slot
           /\ \A s \in Slot : s = job.slot \/ s = active
  BY SlotFacts DEF IInv, TypeOK, Jobs, JobTargetsSpare, Slot, Other

(* Withdrawing a metadata variable of the spare slot keeps the invariant.  *)
LEMMA IInvUnset ==
    ASSUME IInv, TypeOK', UnsetKey
    PROVE  IInv'
  <1> DEFINE s == job.slot  k0 == KeyOrder[job.i]
  <1>1. /\ job # Idle /\ job.pc = "unset" /\ job.i \in 1 .. 4
        /\ UNCHANGED << rootfs, active, running, runImg >>
    BY DEF UnsetKey, At, IInv, TypeOK, Jobs, power
  <1>2. /\ s \in Slot /\ active = Other(s) /\ active # s
        /\ \A t \in Slot : t = s \/ t = active
    BY <1>1, SpareOnly
  <1>3. /\ k0 \in Key /\ meta'[s][k0] = None /\ meta'[active] = meta[active]
        /\ \A k \in Key : k # k0 => meta'[s][k] = meta[s][k]
    BY <1>1, <1>2, KeyOrderFacts DEF UnsetKey, IInv, TypeOK
  <1>4. ActiveSlotUpgradable'
    BY <1>1, <1>3 DEF IInv, ActiveSlotUpgradable, Matches
  <1>5. OfferedSlotTruthful'
    <2> SUFFICES ASSUME NEW t \in Slot, meta'[t]["platform"] # None
                 PROVE  /\ rootfs[t] \in Images
                        /\ \A k \in Key : meta'[t][k] \in {None, MetaOf(rootfs[t])[k]}
      BY <1>1 DEF OfferedSlotTruthful
    <2>1. CASE t = active
      BY <1>3, <2>1 DEF IInv, OfferedSlotTruthful
    <2>2. CASE t = s
      BY <1>3, <2>2 DEF IInv, OfferedSlotTruthful, Key
    <2> QED
      BY <1>2, <2>1, <2>2
  <1>6. OnlyBoardFirmware' /\ RunImgKnown'
    BY <1>1 DEF IInv, OnlyBoardFirmware, RunImgKnown
  <1>7. /\ job'.task = job.task /\ job'.slot = s /\ job'.img = job.img
        /\ \/ job'.pc = "trim" /\ job.i = LastUnset
           \/ job'.pc = "unset" /\ job'.i = job.i + 1 /\ job.i # LastUnset
    BY <1>1 DEF UnsetKey, GoTo, IInv, TypeOK, Jobs
  <1>8. JobTargetsSpare' /\ JobShape'
    BY <1>1, <1>7 DEF IInv, JobTargetsSpare, JobShape, LastUnset, SwitchPC
  <1>9. JobProgress'
    <2>1. job.i >= 2 => meta'[s]["platform"] = None
      <3>1. CASE job.i = 2
        BY <1>3, <3>1, KeyOrderFacts
      <3>2. CASE job.i > 2
        BY <1>1, <1>3, <3>2 DEF IInv, JobProgress, At, Key
      <3> QED
        BY <1>1, <3>1, <3>2
    <2>2. job.task = "upgrade" => \A j \in 1 .. job.i : meta'[s][KeyOrder[j]] = None
      BY <1>1, <1>3, KeyOrderFacts DEF IInv, JobProgress, At
    <2>3. CASE job'.pc = "trim"
      <3>1. job.i >= 2
        BY <1>1, <1>7, <2>3 DEF LastUnset
      <3>2. job.task = "upgrade" => \A k \in Key : meta'[s][k] = None
        BY <1>7, <2>2, <2>3, KeyOrderFacts DEF LastUnset
      <3> QED
        BY <1>7, <2>1, <2>3, <3>1, <3>2 DEF JobProgress, At
    <2>4. CASE job'.pc = "unset" /\ job'.i = job.i + 1
      BY <1>1, <1>7, <2>1, <2>2, <2>4 DEF JobProgress, At
    <2> QED
      BY <1>7, <2>3, <2>4
  <1> QED
    BY <1>4, <1>5, <1>6, <1>8, <1>9 DEF IInv

(* The spare's rootfs is only written while its platform is unset.         *)
LEMMA IInvContent ==
    ASSUME IInv, TypeOK', TrimRootfs \/ WriteRootfsBegin \/ WriteRootfsEnd
    PROVE  IInv'
  <1> DEFINE s == job.slot
  <1>1. /\ job # Idle /\ job.pc \in {"trim", "write", "writing"}
        /\ UNCHANGED << active, meta, running, runImg >>
    BY DEF TrimRootfs, WriteRootfsBegin, WriteRootfsEnd, At, power
  <1>2. /\ s \in Slot /\ active = Other(s) /\ active # s
        /\ \A t \in Slot : t = s \/ t = active
    BY <1>1, SpareOnly
  <1>3. /\ rootfs'[active] = rootfs[active]
        /\ \/ rootfs'[s] = rootfs[s]
           \/ rootfs'[s] = NoImage
           \/ rootfs'[s] = job.img /\ job.pc = "writing"
    BY <1>1, <1>2 DEF TrimRootfs, WriteRootfsBegin, WriteRootfsEnd, At, IInv, TypeOK
  <1>4. job.pc \in {"write", "writing"} => job.task = "upgrade"
    BY <1>1 DEF IInv, TypeOK, Jobs, JobShape, SwitchPC
  <1>5. meta[s]["platform"] = None
    BY <1>1 DEF IInv, JobProgress, At
  <1>6. ActiveSlotUpgradable'
    BY <1>1, <1>3 DEF IInv, ActiveSlotUpgradable, Matches
  <1>7. OfferedSlotTruthful'
    BY <1>1, <1>2, <1>3, <1>5 DEF IInv, OfferedSlotTruthful
  <1>8. OnlyBoardFirmware'
    BY <1>2, <1>3, <1>4, ImagesAssumption DEF IInv, OnlyBoardFirmware, JobShape
  <1>9. \/ job' = Idle
        \/ /\ job'.task = job.task /\ job'.slot = s /\ job'.img = job.img
           /\ job'.i = 1
           /\ \/ job.pc = "trim" /\ job'.pc = "write" /\ job.task = "upgrade"
              \/ job.pc = "write" /\ job'.pc = "writing"
              \/ job.pc = "writing" /\ job'.pc = "set" /\ rootfs'[s] = job.img
    BY <1>1, <1>2 DEF TrimRootfs, WriteRootfsBegin, WriteRootfsEnd, GoTo, At, IInv, TypeOK
  <1>10. JobTargetsSpare' /\ JobShape'
    BY <1>1, <1>4, <1>9 DEF IInv, JobTargetsSpare, JobShape, Idle
  <1>11. JobProgress'
    BY <1>1, <1>4, <1>5, <1>9 DEF IInv, JobProgress, At, Idle
  <1>12. RunImgKnown'
    BY <1>1 DEF IInv, RunImgKnown
  <1> QED
    BY <1>6, <1>7, <1>8, <1>10, <1>11, <1>12 DEF IInv

(* Each variable set afterwards is true of the rootfs already written.     *)
LEMMA IInvSet ==
    ASSUME IInv, TypeOK', SetKey
    PROVE  IInv'
  <1> DEFINE s == job.slot  k0 == KeyOrder[job.i]
  <1>1. /\ job # Idle /\ job.pc = "set" /\ job.i \in 1 .. 4
        /\ UNCHANGED << rootfs, active, running, runImg >>
        /\ rootfs[s] = job.img
    BY DEF SetKey, At, IInv, TypeOK, Jobs, power, JobProgress
  <1>2. /\ s \in Slot /\ active = Other(s) /\ active # s
        /\ \A t \in Slot : t = s \/ t = active
    BY <1>1, SpareOnly
  <1>3. /\ k0 \in Key /\ meta'[s][k0] = MetaOf(job.img)[k0]
        /\ meta'[active] = meta[active]
        /\ \A k \in Key : k # k0 => meta'[s][k] = meta[s][k]
    BY <1>1, <1>2, KeyOrderFacts DEF SetKey, IInv, TypeOK
  <1>4. job.task = "upgrade" /\ job.img \in Images
    BY <1>1 DEF IInv, TypeOK, Jobs, JobShape, SwitchPC
  <1>5. ActiveSlotUpgradable'
    BY <1>1, <1>3 DEF IInv, ActiveSlotUpgradable, Matches
  <1>6. \A k \in Key : meta'[s][k] \in {None, MetaOf(job.img)[k]}
    BY <1>1, <1>3 DEF IInv, JobProgress, At
  <1>7. OfferedSlotTruthful'
    BY <1>1, <1>2, <1>3, <1>4, <1>6 DEF IInv, OfferedSlotTruthful
  <1>8. OnlyBoardFirmware' /\ RunImgKnown'
    BY <1>1 DEF IInv, OnlyBoardFirmware, RunImgKnown
  <1>9. /\ job'.task = job.task /\ job'.slot = s /\ job'.img = job.img
        /\ \/ job'.pc \in {"dropglobal", "activate"} /\ job.i = 4
           \/ job'.pc = "set" /\ job'.i = job.i + 1
    BY <1>1 DEF SetKey, GoTo, IInv, TypeOK, Jobs
  <1>10. JobTargetsSpare' /\ JobShape'
    BY <1>1, <1>4, <1>9 DEF IInv, JobTargetsSpare, JobShape
  <1>11. /\ job.i >= 2 => meta'[s]["platform"] = PlatformOf[job.img]
         /\ job.i >= 3 => meta'[s]["architecture"] = ArchOf[job.img]
    <2>1. job.i > 2 => meta[s]["platform"] = PlatformOf[job.img]
      BY <1>1 DEF IInv, JobProgress, At
    <2>2. job.i > 3 => meta[s]["architecture"] = ArchOf[job.img]
      BY <1>1 DEF IInv, JobProgress, At
    <2>3. job.i = 2 => meta'[s]["platform"] = PlatformOf[job.img]
      BY <1>3, <1>4, KeyOrderFacts, MetaOfFacts
    <2>4. job.i = 3 => meta'[s]["architecture"] = ArchOf[job.img]
      BY <1>3, <1>4, KeyOrderFacts, MetaOfFacts
    <2>5. /\ job.i > 2 => k0 # "platform"
          /\ job.i > 3 => k0 # "architecture"
      BY <1>1, KeyOrderFacts
    <2> QED
      BY <1>1, <1>3, <2>1, <2>2, <2>3, <2>4, <2>5 DEF Key
  <1>12. JobProgress'
    <2>1. CASE job'.pc = "set" /\ job'.i = job.i + 1
      BY <1>1, <1>6, <1>9, <1>11, <2>1 DEF JobProgress, At
    <2>2. CASE job'.pc \in {"dropglobal", "activate"} /\ job.i = 4
      BY <1>1, <1>4, <1>9, <1>11, <2>2 DEF JobProgress, At, Matches
    <2> QED
      BY <1>9, <2>1, <2>2
  <1> QED
    BY <1>5, <1>7, <1>8, <1>10, <1>12 DEF IInv

(* nerves_fw_active moves to a slot that holds a matching complete image.  *)
LEMMA IInvActivate ==
    ASSUME IInv, TypeOK', SetActive
    PROVE  IInv'
  <1>1. /\ job # Idle /\ job.pc = "activate" /\ active' = job.slot
        /\ UNCHANGED << rootfs, meta, running, runImg >>
        /\ rootfs[job.slot] \in Images /\ Matches(job.slot, rootfs[job.slot])
    BY DEF SetActive, At, IInv, JobProgress, power
  <1>2. /\ job'.task = job.task /\ job'.slot = job.slot /\ job'.img = job.img
        /\ job'.pc = "truncate"
    BY DEF SetActive, GoTo
  <1>3. ActiveSlotUpgradable' /\ OfferedSlotTruthful' /\ OnlyBoardFirmware' /\ RunImgKnown'
    BY <1>1 DEF IInv, ActiveSlotUpgradable, OfferedSlotTruthful, OnlyBoardFirmware,
                RunImgKnown, Matches
  <1>4. JobTargetsSpare' /\ JobShape' /\ JobProgress'
    BY <1>1, <1>2 DEF IInv, JobTargetsSpare, JobShape, JobProgress, At, SwitchPC
  <1> QED
    BY <1>3, <1>4 DEF IInv

(* The invariant is inductive.                                             *)
LEMMA IInvNext == IInv /\ [Next]_vars => IInv'
  <1> SUFFICES ASSUME IInv, [Next]_vars PROVE IInv'
    OBVIOUS
  <1>1. TypeOK'
    BY TypeNext DEF IInv
  <1> QED
    BY <1>1, IInvPower, IInvUpgrade, IInvRevert, IInvPreventRevert, IInvFlags,
       IInvUnset, IInvContent, IInvSet, IInvActivate
       DEF Next, JobStep

(* The inductive invariant holds in every reachable state.                 *)
THEOREM Inductive == Spec => []IInv
  BY IInvInit, IInvNext, PTL DEF Spec

(* Every reachable state of the GRUB A/B model is well typed.              *)
THEOREM TypeCorrect == Spec => []TypeOK
  <1>1. IInv => TypeOK
    BY DEF IInv
  <1> QED
    BY <1>1, Inductive, PTL

(* An interrupted upgrade can always be retried: the active slot keeps a   *)
(* complete image and the metadata the upgrade tasks require.              *)
THEOREM UpgradeRetriable == Spec => []ActiveSlotUpgradable
  <1>1. IInv => ActiveSlotUpgradable
    BY DEF IInv
  <1> QED
    BY <1>1, Inductive, PTL

(* A slot that revert may switch to holds the complete image its metadata  *)
(* describes.                                                              *)
THEOREM OffersTruthful == Spec => []OfferedSlotTruthful
  <1>1. IInv => OfferedSlotTruthful
    BY DEF IInv
  <1> QED
    BY <1>1, Inductive, PTL

(* Firmware for another platform or architecture is never installed.       *)
THEOREM BoardFirmware == Spec => []OnlyBoardFirmware
  <1>1. IInv => OnlyBoardFirmware
    BY DEF IInv
  <1> QED
    BY <1>1, Inductive, PTL

(* The two nerves_fw_validated assignments of an upgrade come in an order  *)
(* that never leaves both slots unvalidated, wherever the task is cut.     *)
THEOREM OneSlotValidated == Spec => []SomeSlotValidated
  <1>1. Init => ValidationInv
    BY DEF Init, InstalledDisk, Off, ValidationInv, SomeSlotValidated, At, Slot
  <1>2. IInv /\ ValidationInv /\ [Next]_vars => ValidationInv'
    <2> SUFFICES ASSUME IInv, ValidationInv, [Next]_vars, TracksSlotValidation
                 PROVE  /\ SomeSlotValidated'
                        /\ At("clearvalid")' => validated'[job'.slot] = "1"
      BY DEF ValidationInv
    <2>1. CASE SetTargetValidated
      BY <2>1 DEF SetTargetValidated, At, GoTo, SomeSlotValidated, IInv, TypeOK, Jobs
    <2>2. CASE ClearOtherValidated
      <3>1. job.slot \in Slot /\ validated[job.slot] = "1" /\ Other(job.slot) # job.slot
        BY <2>2, SlotFacts DEF ClearOtherValidated, ValidationInv, IInv, TypeOK, Jobs
      <3> QED
        BY <2>2, <3>1 DEF ClearOtherValidated, At, GoTo, SomeSlotValidated, IInv, TypeOK
    <2>3. CASE ~ (SetTargetValidated \/ ClearOtherValidated)
      <3>1. validated' = validated
        BY <2>3 DEF Next, JobStep, vars, disk, Boot, Reboot, PowerCut, Abort, StartUpgrade,
                    StartRevert, StartPreventRevert, Start, Validate, UnsetKey, TrimRootfs,
                    WriteRootfsBegin, WriteRootfsEnd, SetKey, DropGlobalValidated, SetActive,
                    TruncateGrubenv, WriteGrubenv
      <3>2. At("clearvalid")' => UNCHANGED job
        BY <2>3 DEF Next, JobStep, vars, Boot, Reboot, PowerCut, Abort, StartUpgrade,
                    StartRevert, StartPreventRevert, Start, Validate, UnsetKey, TrimRootfs,
                    WriteRootfsBegin, WriteRootfsEnd, SetKey, DropGlobalValidated, SetActive,
                    TruncateGrubenv, WriteGrubenv, At, GoTo, IInv, TypeOK, Jobs
      <3> QED
        BY <3>1, <3>2 DEF ValidationInv, SomeSlotValidated, At
    <2> QED
      BY <2>1, <2>2, <2>3
  <1>3. ValidationInv => SomeSlotValidated
    BY DEF ValidationInv, SomeSlotValidated
  <1> QED
    BY <1>1, <1>2, <1>3, Inductive, PTL DEF Spec

(* Wherever a switch is cut, both slots can be booted and upgraded from:   *)
(* the target is complete when a task comes to nerves_fw_active, the slot  *)
(* in force always is, and nothing is written between the two variables.   *)
THEOREM CutSwitchBoots == Spec => []CutSwitchBootable
  <1>1. Init => CutSwitchBootable
    BY DEF Init, Off, CutSwitchBootable
  <1>2. IInv /\ CutSwitchBootable /\ [Next]_vars /\ IInv' => CutSwitchBootable'
    <2> SUFFICES ASSUME IInv, CutSwitchBootable, [Next]_vars, IInv',
                        job' # Idle, job'.pc \in SwitchPC,
                        NEW s \in Slot
                 PROVE  rootfs'[s] \in Images /\ Matches(s, rootfs[s])'
      BY DEF CutSwitchBootable
    <2>1. CASE job'.pc = "activate"
      <3>1. active' = Other(job'.slot) /\ job'.slot \in Slot
        BY <2>1 DEF IInv, JobTargetsSpare, TypeOK, Jobs
      <3>2. rootfs'[job'.slot] \in Images /\ Matches(job.slot, rootfs[job.slot])'
        BY <2>1 DEF IInv, JobProgress, At
      <3>3. rootfs'[active'] \in Images /\ Matches(active, rootfs[active])'
        BY DEF IInv, ActiveSlotUpgradable
      <3>4. s = job'.slot \/ s = active'
        BY <3>1 DEF Slot, Other
      <3> QED
        BY <3>2, <3>3, <3>4 DEF Matches
    <2>2. CASE job'.pc \in {"truncate", "grubenv"}
      <3>1. job # Idle /\ job.pc \in SwitchPC /\ rootfs' = rootfs /\ meta' = meta
        BY <2>2 DEF Next, JobStep, vars, disk, Boot, Reboot, PowerCut, Abort, StartUpgrade,
                    StartRevert, StartPreventRevert, Start, Validate, UnsetKey, TrimRootfs,
                    WriteRootfsBegin, WriteRootfsEnd, SetKey, DropGlobalValidated,
                    SetTargetValidated, ClearOtherValidated, SetActive, TruncateGrubenv,
                    WriteGrubenv, At, GoTo, SwitchPC, IInv, TypeOK, Jobs
      <3> QED
        BY <3>1 DEF CutSwitchBootable, Matches
    <2> QED
      BY <2>1, <2>2 DEF SwitchPC
  <1> QED
    BY <1>1, <1>2, Inductive, PTL DEF Spec

(***************************************************************************)
(* Action properties and refinement.                                       *)
(***************************************************************************)

\* The only steps that change a rootfs change the one a task targets.
LEMMA ContentSteps ==
    ASSUME IInv, [Next]_vars
    PROVE  rootfs' = rootfs \/ (\A s \in Slot : rootfs'[s] # rootfs[s] => s # active)
  <1>1. CASE TrimRootfs \/ WriteRootfsBegin \/ WriteRootfsEnd
    <2>1. job # Idle /\ job.pc \in {"trim", "write", "writing"}
      BY <1>1 DEF TrimRootfs, WriteRootfsBegin, WriteRootfsEnd, At
    <2>2. active \in Slot /\ active # job.slot
      BY <2>1, SpareOnly DEF IInv, TypeOK
    <2> QED
      BY <1>1, <2>2 DEF TrimRootfs, WriteRootfsBegin, WriteRootfsEnd, IInv, TypeOK
  <1>2. CASE ~ (TrimRootfs \/ WriteRootfsBegin \/ WriteRootfsEnd)
    BY <1>2 DEF Next, JobStep, vars, disk, Boot, Reboot, PowerCut, Abort, MayStop, StartUpgrade, StartRevert,
                StartPreventRevert, Start, Validate, UnsetKey, SetKey, DropGlobalValidated,
                SetTargetValidated, ClearOtherValidated, SetActive, TruncateGrubenv, WriteGrubenv
  <1> QED
    BY <1>1, <1>2

(* While the running slot is the active one no task writes to it.          *)
THEOREM RunningSlotSpared == Spec => ActiveRunningSlotSpared
  <1>1. IInv /\ [Next]_vars =>
          [running = active => rootfs'[running] = rootfs[running]]_vars
    BY ContentSteps DEF IInv, TypeOK
  <1> QED
    BY <1>1, Inductive, PTL DEF Spec, ActiveRunningSlotSpared

\* The stock the refinement mapping reads off the disk.
Stock == [s \in Slot |-> IF Offered(s) THEN rootfs[s] ELSE NoImage]

(* The slot in force is always offered.                                    *)
LEMMA StockOfActive ==
    ASSUME IInv
    PROVE  Offered(active) /\ Stock[active] = rootfs[active] /\ rootfs[active] \in Images
  BY ImagesAssumption DEF IInv, TypeOK, ActiveSlotUpgradable, Matches, Offered, Stock

\* A step that changes neither metadata nor contents nor the active slot.
LEMMA StockStutter ==
    ASSUME UNCHANGED << rootfs, meta, active >>
    PROVE  UNCHANGED << active, Stock >>
  BY DEF Stock, Offered

(* Unsetting a variable withdraws the spare or changes nothing.            *)
LEMMA UnsetSimulates ==
    ASSUME IInv, UnsetKey
    PROVE  active' = active /\ (Stock' = Stock \/ Stock' = [Stock EXCEPT ![Other(active)] = NoImage])
  <1>0. PICK s \in Slot : s = job.slot
    BY SpareOnly DEF UnsetKey, At
  <1>1. /\ s \in Slot /\ active = Other(s) /\ active # s /\ Other(active) = s
        /\ \A t \in Slot : t = s \/ t = active
    BY <1>0, SpareOnly, SlotFacts DEF UnsetKey, At
  <1>2. /\ UNCHANGED << rootfs, active >> /\ meta'[active] = meta[active]
        /\ \A k \in Key : meta'[s][k] = meta[s][k] \/ meta'[s][k] = None
    BY <1>0, <1>1, KeyOrderFacts DEF UnsetKey, IInv, TypeOK
  <1>3. Offered(active)' = Offered(active)
    BY <1>2 DEF Offered
  <1>4. CASE Offered(s)'
    <2>1. Offered(s)
      BY <1>2, <1>4 DEF Offered, Key
    <2>2. \A t \in Slot : Stock'[t] = Stock[t]
      BY <1>1, <1>2, <1>3, <1>4, <2>1 DEF Stock, Offered
    <2> QED
      BY <1>2, <2>2 DEF Stock
  <1>5. CASE ~ Offered(s)'
    <2>1. \A t \in Slot : Stock'[t] = [Stock EXCEPT ![s] = NoImage][t]
      BY <1>1, <1>2, <1>3, <1>5 DEF Stock, Offered
    <2> QED
      BY <1>1, <1>2, <2>1 DEF Stock
  <1> QED
    BY <1>4, <1>5

(* Writing a rootfs is invisible: the slot is not offered meanwhile.       *)
LEMMA ContentSimulates ==
    ASSUME IInv, TrimRootfs \/ WriteRootfsBegin \/ WriteRootfsEnd
    PROVE  UNCHANGED << active, Stock >>
  <1> DEFINE s == job.slot
  <1>1. /\ job # Idle /\ job.pc \in {"trim", "write", "writing"}
        /\ UNCHANGED << active, meta >>
        /\ \A t \in Slot : t # s => rootfs'[t] = rootfs[t]
    BY DEF TrimRootfs, WriteRootfsBegin, WriteRootfsEnd, At, IInv, TypeOK
  <1>2. ~ Offered(s)
    BY <1>1 DEF IInv, JobProgress, At, Offered
  <1>3. \A t \in Slot : Stock'[t] = Stock[t]
    BY <1>1, <1>2 DEF Stock, Offered
  <1> QED
    BY <1>1, <1>3 DEF Stock

(* Setting the second of platform and architecture fills the spare.        *)
LEMMA SetSimulates ==
    ASSUME IInv, SetKey
    PROVE  /\ active' = active
           /\ \/ Stock' = Stock
              \/ /\ Stock[Other(active)] = NoImage
                 /\ job.img \in Images /\ Compatible(job.img, Stock[active])
                 /\ Stock' = [Stock EXCEPT ![Other(active)] = job.img]
  <1>0. PICK s \in Slot : s = job.slot
    BY SpareOnly DEF SetKey, At
  <1>1. /\ s \in Slot /\ active = Other(s) /\ active # s /\ Other(active) = s
        /\ active \in Slot /\ \A t \in Slot : t = s \/ t = active
    BY <1>0, SpareOnly, SlotFacts DEF SetKey, At, IInv, TypeOK
  <1>2. /\ UNCHANGED << rootfs, active >> /\ meta'[active] = meta[active]
        /\ rootfs[s] = job.img
    BY <1>0, <1>1 DEF SetKey, At, IInv, TypeOK, JobProgress
  <1>3. job.img \in Images /\ Compatible(job.img, rootfs[active])
    BY <1>0, <1>1, StockOfActive
       DEF SetKey, At, IInv, TypeOK, Jobs, JobShape, SwitchPC, OnlyBoardFirmware, Compatible
  <1>4. Offered(active)' = Offered(active)
    BY <1>2 DEF Offered
  <1>5. CASE Offered(s)' = Offered(s)
    <2>1. \A t \in Slot : Stock'[t] = Stock[t]
      BY <1>1, <1>2, <1>4, <1>5 DEF Stock
    <2> QED
      BY <1>2, <2>1 DEF Stock
  <1>6. CASE Offered(s)' /\ ~ Offered(s)
    <2>1. \A t \in Slot : Stock'[t] = [Stock EXCEPT ![s] = job.img][t]
      BY <1>1, <1>2, <1>4, <1>6 DEF Stock
    <2>2. Stock' = [Stock EXCEPT ![s] = job.img]
      BY <2>1 DEF Stock
    <2> QED
      BY <1>1, <1>2, <1>3, <1>6, <2>2, StockOfActive DEF Stock
  <1>7. Offered(s) => Offered(s)'
    <2>1. KeyOrder[job.i] \in Key /\ MetaOf(job.img)[KeyOrder[job.i]] # None
      BY <1>3, KeyOrderFacts, MetaOfFacts DEF IInv, TypeOK, Jobs
    <2> QED
      BY <1>0, <1>1, <2>1 DEF SetKey, IInv, TypeOK, Offered, Key
  <1> QED
    BY <1>2, <1>5, <1>6, <1>7 DEF Offered

(* Setting nerves_fw_active is the abstract switch.                        *)
LEMMA ActivateSimulates ==
    ASSUME IInv, SetActive
    PROVE  active' = Other(active) /\ Stock' = Stock /\ Stock[Other(active)] \in Images
  <1>1. /\ job.slot \in Slot /\ active = Other(job.slot) /\ Other(active) = job.slot
        /\ rootfs[job.slot] \in Images /\ Matches(job.slot, rootfs[job.slot])
    BY SpareOnly, SlotFacts DEF SetActive, At, IInv, JobProgress
  <1>2. Offered(job.slot)
    BY <1>1, ImagesAssumption DEF Matches, Offered
  <1> QED
    BY <1>1, <1>2 DEF SetActive, Stock, Offered

(* Every step of GrubAB is a step of SlotInventory or a stutter.           *)
LEMMA InventoryStep == IInv /\ [Next]_vars => [Inventory!StockNext]_(Inventory!stockVars)
  <1> SUFFICES ASSUME IInv, [Next]_vars
               PROVE  [Inventory!StockNext]_<< active, Stock >>
    BY DEF Inventory!stockVars, Stock, Offered
  <1> USE DEF Inventory!StockNext, Inventory!Other, Inventory!Compatible, Other, Compatible
  <1>1. CASE UnsetKey
    BY <1>1, UnsetSimulates DEF Inventory!Withdraw, Stock
  <1>2. CASE TrimRootfs \/ WriteRootfsBegin \/ WriteRootfsEnd
    BY <1>2, ContentSimulates
  <1>3. CASE SetKey
    BY <1>3, SetSimulates DEF Inventory!Fill, Stock
  <1>4. CASE SetActive
    BY <1>4, ActivateSimulates DEF Inventory!Switch, Stock
  <1>5. CASE ~ (UnsetKey \/ TrimRootfs \/ WriteRootfsBegin \/ WriteRootfsEnd \/ SetKey \/ SetActive)
    <2>1. UNCHANGED << rootfs, meta, active >>
      BY <1>5 DEF Next, JobStep, vars, disk, Boot, Reboot, PowerCut, Abort, MayStop, StartUpgrade,
                  StartRevert, StartPreventRevert, Start, Validate, DropGlobalValidated,
                  SetTargetValidated, ClearOtherValidated, TruncateGrubenv, WriteGrubenv
    <2> QED
      BY <2>1, StockStutter
  <1> QED
    BY <1>1, <1>2, <1>3, <1>4, <1>5

(* An installed disk is an initial inventory.                              *)
LEMMA InventoryInit == Init => Inventory!StockInit
  <1> SUFFICES ASSUME Init PROVE Inventory!StockInit
    OBVIOUS
  <1>1. Offered("a") /\ ~ Offered("b")
    BY ImagesAssumption, MetaOfFacts DEF Init, InstalledDisk, Off, Offered, Slot, Key
  <1> QED
    BY <1>1 DEF Init, InstalledDisk, Off, Inventory!StockInit, Inventory!Slot, Slot, Offered

(* GrubAB implements the A/B promise of SlotInventory.                     *)
THEOREM Refinement == Spec => ImplementsInventory
  BY InventoryInit, InventoryStep, Inductive, PTL
     DEF Spec, ImplementsInventory, Inventory!StockSpec

(***************************************************************************)
(* What holds when power does not fail inside a switch and the operator    *)
(* reboots after one.                                                      *)
(***************************************************************************)

(* GRUB and fwup agree on slot A after the installation.                   *)
LEMMA CarefulInit == Init => CarefulInv
  BY DEF Init, InstalledDisk, Off, CarefulInv, Switching, Selected

(* Boots, reboots and cuts outside a switch keep the agreement.            *)
LEMMA CarefulPower ==
    ASSUME CutsInSwitch = FALSE, IInv, CarefulInv, Boot \/ Reboot \/ PowerCut \/ Abort
    PROVE  CarefulInv'
  <1>1. CASE Boot
    <2>1. job = Idle
      BY <1>1 DEF Boot, CarefulInv
    <2> QED
      BY <1>1, <2>1 DEF Boot, CarefulInv, Switching, Selected, disk
  <1>2. CASE Reboot
    BY <1>2 DEF Reboot, CarefulInv, Switching, Selected, disk
  <1>3. CASE PowerCut \/ Abort
    BY <1>3 DEF PowerCut, Abort, MayStop, CarefulInv, Switching, Selected, disk, power
  <1> QED
    BY <1>1, <1>2, <1>3

(* Starting a task changes nothing that GRUB or the running system sees.   *)
LEMMA CarefulStart ==
    ASSUME OperatorSkipsReboot = FALSE, IInv, CarefulInv, NEW s \in Slot,
           NEW task \in {"upgrade", "revert", "prevent-revert"}, NEW img,
           NEW pc \in {"unset", "activate"}, NEW i,
           CanStart, Start(task, s, img, pc, i)
    PROVE  CarefulInv'
  <1>1. job = Idle /\ running # "none" /\ ~ switched
    BY DEF CanStart, IInv, TypeOK
  <1>2. UNCHANGED << disk, power >> /\ job' # Idle /\ job'.pc = pc /\ job'.slot = s
    BY DEF Start, Idle
  <1> QED
    BY <1>1, <1>2 DEF CarefulInv, Switching, Selected, disk, power

(* The three operations of a switch disagree only among themselves.        *)
LEMMA CarefulSwitch ==
    ASSUME IInv, CarefulInv, SetActive \/ TruncateGrubenv \/ WriteGrubenv
    PROVE  CarefulInv'
  <1>1. job # Idle /\ running # "none" /\ ~ switched /\ job.slot \in Slot
    BY DEF SetActive, TruncateGrubenv, WriteGrubenv, At, CarefulInv, IInv, TypeOK, Jobs
  <1>2. CASE SetActive
    <2>1. ~ Switching /\ active = Other(job.slot) /\ rootfs[active] \in Images
      BY <1>1, <1>2 DEF SetActive, At, Switching, IInv, JobTargetsSpare, ActiveSlotUpgradable
    <2>2. /\ job' # Idle /\ job'.pc = "truncate" /\ job'.slot = job.slot
          /\ UNCHANGED << rootfs, grubenv, running, runImg, switched >>
      BY <1>2 DEF SetActive, GoTo, Idle, power
    <2> QED
      BY <1>1, <2>1, <2>2 DEF CarefulInv, Switching
  <1>3. CASE TruncateGrubenv
    <2>1. Switching /\ job.pc = "truncate"
      BY <1>1, <1>3 DEF TruncateGrubenv, At, Switching
    <2>2. /\ job' # Idle /\ job'.pc = "grubenv" /\ job'.slot = job.slot
          /\ UNCHANGED << rootfs, active, running, runImg, switched >>
      BY <1>3 DEF TruncateGrubenv, GoTo, Idle, power
    <2> QED
      BY <1>1, <2>1, <2>2 DEF CarefulInv, Switching
  <1>4. CASE WriteGrubenv
    <2>1. active = job.slot
      BY <1>4 DEF WriteGrubenv, At, IInv, JobTargetsSpare
    <2> QED
      BY <1>1, <1>4, <2>1 DEF WriteGrubenv, CarefulInv, Switching, Selected, Slot
  <1> QED
    BY <1>2, <1>3, <1>4

\* The operations before the switch write to the slot nobody uses.
LEMMA CarefulWork ==
    ASSUME IInv, CarefulInv,
           \/ UnsetKey \/ TrimRootfs \/ WriteRootfsBegin \/ WriteRootfsEnd \/ SetKey
           \/ DropGlobalValidated \/ SetTargetValidated \/ ClearOtherValidated
    PROVE  CarefulInv'
  <1>1. /\ job # Idle /\ job.pc \notin {"truncate", "grubenv"}
        /\ UNCHANGED << grubenv, active, running, runImg, switched >>
        /\ \A t \in Slot : t # job.slot => rootfs'[t] = rootfs[t]
        /\ \/ job' = Idle
           \/ job'.slot = job.slot /\ job'.pc \notin {"truncate", "grubenv"}
    BY DEF UnsetKey, TrimRootfs, WriteRootfsBegin, WriteRootfsEnd, SetKey, At, GoTo, power,
           DropGlobalValidated, SetTargetValidated, ClearOtherValidated, IInv, TypeOK, Jobs
  <1>2. active \in Slot /\ active # job.slot
    BY <1>1, SpareOnly DEF IInv, TypeOK
  <1>3. running = active /\ ~ switched /\ running # "none"
    BY <1>1 DEF CarefulInv, Switching
  <1> QED
    BY <1>1, <1>2, <1>3 DEF CarefulInv, Switching, Selected, Idle

(* The agreement is preserved by every step.                               *)
LEMMA CarefulNext ==
    ASSUME CutsInSwitch = FALSE, OperatorSkipsReboot = FALSE
    PROVE  IInv /\ CarefulInv /\ [Next]_vars => CarefulInv'
  <1> SUFFICES ASSUME IInv, CarefulInv, [Next]_vars PROVE CarefulInv'
    OBVIOUS
  <1>1. ASSUME NEW s \in Slot, NEW img \in Images, StartUpgrade(s, img) PROVE CarefulInv'
    BY <1>1, CarefulStart DEF StartUpgrade
  <1>2. ASSUME NEW s \in Slot, StartRevert(s) PROVE CarefulInv'
    BY <1>2, CarefulStart DEF StartRevert
  <1>3. ASSUME NEW s \in Slot, StartPreventRevert(s) PROVE CarefulInv'
    BY <1>3, CarefulStart DEF StartPreventRevert
  <1>4. CASE Validate \/ UNCHANGED vars
    BY <1>4 DEF Validate, vars, disk, power, CarefulInv, Switching, Selected
  <1> QED
    BY <1>1, <1>2, <1>3, <1>4, CarefulPower, CarefulSwitch, CarefulWork DEF Next, JobStep

(* What follows from the two invariants in every state.                    *)
LEMMA CarefulConsequences ==
    ASSUME IInv, CarefulInv
    PROVE  AlwaysBootable /\ RunningSlotUntouched /\ StatusTruthful
  <1>1. CASE ~ Switching
    BY <1>1 DEF AlwaysBootable, RunningSlotUntouched, StatusTruthful, CarefulInv, IInv,
                ActiveSlotUpgradable
  <1>2. CASE Switching
    <2>1. rootfs[active] \in Images /\ rootfs[Other(active)] \in Images
      BY <1>2 DEF Switching, CarefulInv, IInv, JobTargetsSpare, ActiveSlotUpgradable
    <2>2. Selected = active \/ Selected = Other(active)
      BY DEF Selected, Other, IInv, TypeOK, Slot
    <2>3. RunningSlotUntouched /\ StatusTruthful
      BY <1>2 DEF RunningSlotUntouched, StatusTruthful, CarefulInv, Switching
    <2> QED
      BY <2>1, <2>2, <2>3 DEF AlwaysBootable
  <1> QED
    BY <1>1, <1>2

(* Careful operation keeps the agreement at every moment.                  *)
THEOREM Careful ==
    ASSUME CutsInSwitch = FALSE, OperatorSkipsReboot = FALSE
    PROVE  Spec => []CarefulInv
  BY CarefulInit, CarefulNext, Inductive, PTL DEF Spec

(* If power does not fail inside a switch and the operator reboots after   *)
(* one, the slot GRUB selects holds a complete image at every moment.      *)
THEOREM CarefulBoots ==
    ASSUME CutsInSwitch = FALSE, OperatorSkipsReboot = FALSE
    PROVE  Spec => []AlwaysBootable
  BY CarefulConsequences, Inductive, Careful, PTL

(* Under the same assumptions the partition of the running system is never *)
(* overwritten.                                                            *)
THEOREM CarefulSparesRunning ==
    ASSUME CutsInSwitch = FALSE, OperatorSkipsReboot = FALSE
    PROVE  Spec => []RunningSlotUntouched
  BY CarefulConsequences, Inductive, Careful, PTL

(* Under the same assumptions a pending switch that status reports is what *)
(* GRUB will do.                                                           *)
THEOREM CarefulStatus ==
    ASSUME CutsInSwitch = FALSE, OperatorSkipsReboot = FALSE
    PROVE  Spec => []StatusTruthful
  BY CarefulConsequences, Inductive, Careful, PTL
=============================================================================
