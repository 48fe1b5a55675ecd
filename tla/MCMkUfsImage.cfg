\* Any two invocations of either script, over every input and module size.
CONSTANTS
    MbrLimit = 25
    Tools = {"rubik_pi3", "dragon_q6a"}
    Source <- Images
    FwupSources = {"plain", "permuted", "tight"}
    Arguments <- MCArguments
    MaxInvocations = 2
SPECIFICATION Spec
INVARIANTS
    TypeOK
    LayoutKept
    ContentsKept
    BackupMirrors
    NeverConvertedTwice
    FwupImageAccepted
CHECK_DEADLOCK FALSE
