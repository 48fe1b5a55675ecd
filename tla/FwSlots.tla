------------------------------ MODULE FwSlots ------------------------------
(***************************************************************************)
(* Vocabulary shared by the A/B firmware modules: the two slots, the       *)
(* firmware images and the per-slot metadata that fwup keeps in the        *)
(* U-Boot environment block ("a.nerves_fw_platform" is meta["a"]           *)
(* ["platform"]).  GrubAB and TrybootAB build on it.                       *)
(***************************************************************************)
EXTENDS Naturals, Sequences

CONSTANTS
    Images,        \* firmware images (.fw files) that may reach the device
    PlatformOf,    \* NERVES_FW_PLATFORM of each image
    ArchOf,        \* NERVES_FW_ARCHITECTURE of each image
    FactoryImage,  \* the image the first-installation task wrote
    NoImage,       \* a rootfs partition without a complete squashfs
    None           \* an unset U-Boot variable

ASSUME ImagesAssumption ==
    /\ FactoryImage \in Images
    /\ NoImage \notin Images
    /\ None \notin Images \cup {"0", "1"}
    /\ \A img \in Images : PlatformOf[img] # None /\ ArchOf[img] # None

Slot == {"a", "b"}

Other(s) == IF s = "a" THEN "b" ELSE "a"

(***************************************************************************)
(* The metadata keys whose absence or value some task tests or reports,    *)
(* in the order the tasks clear them and in which they are set again.      *)
(***************************************************************************)
Key == {"version", "platform", "architecture", "uuid"}

KeyOrder == << "version", "platform", "architecture", "uuid" >>

\* The metadata an image carries; version and uuid name the image itself.
MetaOf(img) ==
    [k \in Key |-> CASE k = "platform"     -> PlatformOf[img]
                     [] k = "architecture" -> ArchOf[img]
                     [] OTHER              -> img]

KeyValue == Images \cup {PlatformOf[img] : img \in Images}
                   \cup {ArchOf[img] : img \in Images}

\* Two images that a require-uboot-variable pair cannot tell apart.
Compatible(img, other) ==
    /\ PlatformOf[img] = PlatformOf[other]
    /\ ArchOf[img] = ArchOf[other]
=============================================================================
