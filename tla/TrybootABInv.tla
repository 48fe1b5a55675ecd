---------------------------- MODULE TrybootABInv ----------------------------
(***************************************************************************)
(* The inductive invariants behind the theorems about TrybootAB, kept      *)
(* apart from the proofs so that TLC can check them too.                   *)
(***************************************************************************)
EXTENDS TrybootAB

\* Which operations belong to which task.
JobShape ==
    /\ job.task = "none" => job = Idle
    /\ job.task = "upgrade" =>
         /\ job.img \in Images
         /\ job.pc \notin {"trimboot", "truncate", "autoboot", "validate"}
    /\ job.task = "validate" => job.pc \in {"truncate", "autoboot", "validate"}
    /\ job.task = "revert" => job.pc \in {"truncate", "autoboot"}
    /\ job.task = "prevent-revert" =>
         /\ job.pc \in {"truncate", "autoboot", "validate", "unset",
                        "invalidate", "trim", "trimboot"}
         /\ job.pc = "unset" => job.i \in {2, 3}

\* Tasks run on a running system; all but validate work on the other slot.
JobSlot ==
    job # Idle =>
        running = IF job.task = "validate" THEN job.slot ELSE Other(job.slot)

\* The partitions of the running system are intact.
RunningIntact ==
    running # "none" =>
        /\ runImg \in Images
        /\ rootfs[running] = runImg
        /\ bootfs[running] \in Images

\* The target of a task is not validated once its partitions may be written.
TargetWithdrawn ==
    \/ job.task = "upgrade" /\ job.pc # "invalidate"
    \/ job.task = "prevent-revert" /\ job.pc \in {"trim", "trimboot"}
    => validated[job.slot] # "1"

\* The running slot is validated while a task invalidates the other one.
RunningValidated ==
    \/ job.task = "upgrade"
    \/ /\ job.task = "prevent-revert"
       /\ job.pc \in {"unset", "invalidate", "trim", "trimboot"}
    => validated[running] = "1"

(* The inductive invariant of the unconditional theorems.                  *)
IInv ==
    /\ TypeOK
    /\ JobShape
    /\ JobSlot
    /\ RunningIntact
    /\ ValidatedBootable
    /\ FallbackKept
    /\ TargetWithdrawn
    /\ RunningValidated

(* Added where upgrades require the architecture: every image and every    *)
(* piece of metadata on the board is for the factory image's board.        *)
BoardInv ==
    /\ OnlyBoardFirmware
    /\ \A s \in Slot :
         /\ meta[s]["platform"] \in {None, PlatformOf[FactoryImage]}
         /\ meta[s]["architecture"] \in {None, ArchOf[FactoryImage]}
    /\ Upgrading => Compatible(job.img, FactoryImage)

(***************************************************************************)
(* Added where no task stops while it changes the default slot and the     *)
(* operator reboots after an upgrade or a revert.                          *)
(***************************************************************************)

\* Nothing is being tried once a system runs; no task follows an upgrade or a
\* revert; the parameter is only there between an upgrade and the reboot.
Phases ==
    /\ running # "none" => ~ try
    /\ job # Idle => ~ switched
    /\ param => switched /\ running # "none"

\* prevent-revert takes the metadata of the other slot before its flag.
Dismantled(s) ==
    /\ job.task = "prevent-revert" /\ s = job.slot
    /\ job.pc \in {"unset", "invalidate"}

\* One image, with the metadata that an upgrade from the slot will require.
Intact(s) == Complete(s) /\ Matches(s, rootfs[s])

ValidatedIntact ==
    \A s \in Slot : validated[s] = "1" =>
        Complete(s) /\ (~ Dismantled(s) => Matches(s, rootfs[s]))

RunningComplete == running # "none" => Intact(running)

\* What the next boot is to try: intact, and not validated yet.
TrialIntact ==
    param \/ try =>
        autoboot # "none" /\ Intact(Other(autoboot)) /\ validated[Other(autoboot)] # "1"

\* The default slot is validated; validate and prevent-revert set the flag of
\* the running slot right after they make it the default.
DefaultValidated ==
    ~ (job # Idle /\ job.pc = "autoboot") =>
        /\ autoboot \in Slot
        /\ IF job # Idle /\ job.pc = "validate"
           THEN autoboot = running
           ELSE validated[autoboot] = "1"

\* A validated system runs from the default slot until a revert.
RunsDefault ==
    /\ running # "none" /\ ~ switched /\ validated[running] = "1"
    /\ ~ (job # Idle /\ job.pc = "autoboot")
    => autoboot = running

RevertTarget == job.task = "revert" => validated[job.slot] = "1"

\* How far an upgrade has come.
Progress ==
    Upgrading =>
        /\ job.pc \in {"write", "writing", "set", "param"} => bootfs[job.slot] = job.img
        /\ job.pc \in {"set", "param"} => rootfs[job.slot] = job.img
        /\ job.pc = "param" \/ (job.pc = "set" /\ job.i > 2) =>
               meta[job.slot]["platform"] = PlatformOf[job.img]
        /\ job.pc = "param" \/ (job.pc = "set" /\ job.i > 3) =>
               meta[job.slot]["architecture"] = ArchOf[job.img]

CarefulInv ==
    /\ Phases
    /\ ValidatedIntact
    /\ RunningComplete
    /\ TrialIntact
    /\ DefaultValidated
    /\ RunsDefault
    /\ RevertTarget
    /\ Progress
=============================================================================
