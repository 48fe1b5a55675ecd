------------------------------ MODULE GrubBoard ------------------------------
(***************************************************************************)
(* A GRUB board from its first installation on: the fwup task complete,    *)
(* run on the media before the board has ever booted, cut short and        *)
(* repeated any number of times, followed by the life GrubAB describes.    *)
(* The media starts without firmware ("This should only be run for the     *)
(* first installation").                                                   *)
(***************************************************************************)
EXTENDS GrubABInv

VARIABLES
    esp,      \* boot files present on the EFI system partition
    install,  \* next operation of the task complete, 0: not running
    shipped   \* the board has booted

boardVars == << vars, esp, install, shipped >>

(***************************************************************************)
(* The operations of task complete that later steps depend on: on-init,    *)
(* the resources in archive order, on-finish.                              *)
(***************************************************************************)
CompleteOpsMutant ==
    << "mkfs", "clearenv", "loader", "grub.cfg", "erase", "rootfs", "active",
       "version", "platform", "architecture", "uuid", "validated",
       "truncate", "grubenv", "clear-b" >>
CompleteOps ==
    << "mkfs", "clearenv", "active", "version", "platform", "architecture",
       "uuid", "validated", "loader", "grub.cfg", "erase", "rootfs",
       "truncate", "grubenv", "clear-b" >>

BlankMeta == [s \in Slot |-> [k \in Key |-> None]]

BoardInit ==
    /\ rootfs = [s \in Slot |-> NoImage]
    /\ grubenv = "none"
    /\ active = None
    /\ meta = BlankMeta
    /\ validated = [s \in Slot |-> None]
    /\ fwValidated = None
    /\ Off
    /\ esp = {}
    /\ install = 0
    /\ shipped = FALSE

BeginInstall ==
    /\ ~ shipped
    /\ install = 0
    /\ install' = 1
    /\ UNCHANGED << vars, esp, shipped >>

OnOp(op) == install # 0 /\ CompleteOps[install] = op

\* fat_mkfs of the ESP drops the boot files and grubenv of an earlier try.
EspOps ==
    /\ \/ OnOp("mkfs") /\ esp' = {} /\ grubenv' = "none"
       \/ OnOp("loader") /\ esp' = esp \cup {"loader"} /\ UNCHANGED grubenv
       \/ OnOp("grub.cfg") /\ esp' = esp \cup {"grub.cfg"} /\ UNCHANGED grubenv
       \/ OnOp("truncate") /\ grubenv' = "none" /\ UNCHANGED esp
       \/ OnOp("grubenv") /\ grubenv' = "a" /\ UNCHANGED esp
    /\ UNCHANGED << rootfs, active, meta, validated, fwValidated >>

EnvOps ==
    /\ \/ /\ OnOp("clearenv")
          /\ active' = None
          /\ meta' = BlankMeta
          /\ validated' = [s \in Slot |-> None]
          /\ fwValidated' = None
       \/ OnOp("active") /\ active' = "a" /\ UNCHANGED << meta, validated, fwValidated >>
       \/ /\ \E k \in Key : OnOp(k) /\ meta' = [meta EXCEPT !["a"] =
                                        [@ EXCEPT ![k] = MetaOf(FactoryImage)[k]]]
          /\ UNCHANGED << active, validated, fwValidated >>
       \/ /\ OnOp("validated")
          /\ validated' = IF TracksSlotValidation
                          THEN [validated EXCEPT !["a"] = "1"] ELSE validated
          /\ UNCHANGED << active, meta, fwValidated >>
    /\ UNCHANGED << rootfs, grubenv, esp >>

RootfsOps ==
    /\ \/ OnOp("erase") /\ rootfs' = [rootfs EXCEPT !["a"] = NoImage]
       \/ OnOp("rootfs") /\ rootfs' = [rootfs EXCEPT !["a"] = FactoryImage]
       \/ OnOp("clear-b") /\ rootfs' = [rootfs EXCEPT !["b"] = NoImage]
    /\ UNCHANGED << grubenv, active, meta, validated, fwValidated, esp >>

InstallStep ==
    /\ EspOps \/ EnvOps \/ RootfsOps
    /\ install' = IF install = Len(CompleteOps) THEN 0 ELSE install + 1
    /\ UNCHANGED << power, job, shipped >>

InstallCut ==
    /\ install # 0
    /\ install' = 0
    /\ UNCHANGED << vars, esp, shipped >>

\* The firmware finds the loader and the loader its script, and GRUB boots.
FirstBoot ==
    /\ ~ shipped
    /\ install = 0
    /\ esp = {"loader", "grub.cfg"}
    /\ Boot
    /\ shipped' = TRUE
    /\ UNCHANGED << esp, install >>

Live ==
    /\ shipped
    /\ Next
    /\ UNCHANGED << esp, install, shipped >>

BoardNext == BeginInstall \/ InstallStep \/ InstallCut \/ FirstBoot \/ Live

BoardSpec == BoardInit /\ [][BoardNext]_boardVars
-----------------------------------------------------------------------------
(* Whatever became of the installation, a board that boots finds on its    *)
(* disk what GrubAB assumes initially; in particular the implicit slot-A   *)
(* fallback of grub.cfg never boots media whose environment or rootfs is   *)
(* unfinished.                                                             *)
HandOver == [][~ shipped /\ shipped' => InstalledDisk]_boardVars
=============================================================================
