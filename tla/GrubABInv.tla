----------------------------- MODULE GrubABInv -----------------------------
(***************************************************************************)
(* The inductive invariants behind the theorems about GrubAB, kept apart   *)
(* from the proofs so that TLC can check them too.                         *)
(***************************************************************************)
EXTENDS GrubAB

\* The other slot is in force until nerves_fw_active changes.
JobTargetsSpare ==
    job # Idle =>
        active = IF job.pc \in {"truncate", "grubenv"} THEN job.slot
                                                       ELSE Other(job.slot)

\* Which operations belong to which task.
JobShape ==
    /\ job.task = "none" => job = Idle
    /\ job.task = "revert" => job.pc \in SwitchPC
    /\ job.task = "prevent-revert" =>
         /\ job.pc \in {"unset", "trim"}
         /\ job.pc = "unset" => job.i \in {2, 3}
    /\ job.task = "upgrade" =>
         /\ job.img \in Images
         /\ Compatible(job.img, FactoryImage)

\* What the operations already executed have established.
JobProgress ==
    LET s == job.slot IN
    /\ At("unset") => /\ job.i > 2 => meta[s]["platform"] = None
                      /\ job.task = "upgrade" =>
                           \A j \in 1 .. (job.i - 1) : meta[s][KeyOrder[j]] = None
    /\ At("trim") \/ At("write") \/ At("writing") =>
         /\ meta[s]["platform"] = None
         /\ job.task = "upgrade" => \A k \in Key : meta[s][k] = None
    /\ At("set") =>
         /\ rootfs[s] = job.img
         /\ \A k \in Key : meta[s][k] \in {None, MetaOf(job.img)[k]}
         /\ job.i > 2 => meta[s]["platform"] = PlatformOf[job.img]
         /\ job.i > 3 => meta[s]["architecture"] = ArchOf[job.img]
    /\ (\E pc \in {"dropglobal", "setvalid", "clearvalid", "activate"} : At(pc)) =>
         /\ rootfs[s] \in Images
         /\ Matches(s, rootfs[s])

RunImgKnown == running # "none" => runImg \in Images

(* The inductive invariant of the unconditional theorems.                  *)
IInv ==
    /\ TypeOK
    /\ ActiveSlotUpgradable
    /\ OfferedSlotTruthful
    /\ OnlyBoardFirmware
    /\ JobTargetsSpare
    /\ JobShape
    /\ JobProgress
    /\ RunImgKnown

\* Why clearing the other slot's flag cannot leave both slots unvalidated.
ValidationInv ==
    TracksSlotValidation =>
        /\ SomeSlotValidated
        /\ At("clearvalid") => validated[job.slot] = "1"

Switching == job # Idle /\ job.pc \in {"truncate", "grubenv"}

(* Added under the assumptions that power does not fail inside a switch    *)
(* and that the operator reboots after one: GRUB, fwup and the running     *)
(* system agree on the slot except while a task switches it, and until the *)
(* reboot that follows.                                                    *)
CarefulInv ==
    /\ ~ Switching => Selected = active
    /\ Switching => rootfs[Other(job.slot)] \in Images
    /\ job # Idle => running # "none" /\ ~ switched
    /\ running # "none" =>
         /\ rootfs[running] = runImg
         /\ ~ switched => running = IF Switching THEN Other(job.slot) ELSE active
=============================================================================
