---------------------------- MODULE GrubBoardInv ----------------------------
(***************************************************************************)
(* The inductive invariant behind the theorems about GrubBoard.            *)
(***************************************************************************)
EXTENDS GrubBoard

\* The environment as the task complete leaves it.
EnvDone ==
    /\ active = "a"
    /\ meta["a"] = MetaOf(FactoryImage)
    /\ validated["a"] = IF TracksSlotValidation THEN "1" ELSE None

\* Until the first boot slot B and the global flag are unset, and slot A holds
\* the factory image or nothing.
Unshipped ==
    /\ Off
    /\ rootfs \in [Slot -> {NoImage, FactoryImage}] /\ rootfs["b"] = NoImage
    /\ grubenv \in {"a", "none"}
    /\ meta \in [Slot -> [Key -> KeyValue \cup {None}]]
    /\ meta["b"] = [k \in Key |-> None]
    /\ validated \in [Slot -> {"1", None}] /\ validated["b"] = None
    /\ ~ TracksSlotValidation => validated["a"] = None
    /\ fwValidated = None

\* What the operations already executed have established.
InstallProgress ==
    /\ install > 3 => active = "a"
    /\ install > 4 => meta["a"]["version"] = MetaOf(FactoryImage)["version"]
    /\ install > 5 => meta["a"]["platform"] = MetaOf(FactoryImage)["platform"]
    /\ install > 6 => meta["a"]["architecture"] = MetaOf(FactoryImage)["architecture"]
    /\ install > 7 => meta["a"]["uuid"] = MetaOf(FactoryImage)["uuid"]
    /\ install > 8 => EnvDone

\* Boot files are the mark of a finished environment: mkfs takes those of an
\* earlier try away before the environment is cleared.
BootFilesMark ==
    /\ install \in 2 .. 9 => esp = {}
    /\ esp # {} => EnvDone

InstallInv ==
    /\ install \in 0 .. 15
    /\ ~ shipped => Unshipped /\ InstallProgress /\ BootFilesMark
    /\ shipped => install = 0 /\ IInv
=============================================================================
