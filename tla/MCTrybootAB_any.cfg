SPECIFICATION Spec
CONSTANTS
    v1 = v1
    v2 = v2
    alien = alien
    Images <- MCImages
    PlatformOf <- MCPlatformOf
    ArchOf <- MCArchOf
    FactoryImage = v1
    NoImage = NoImage
    None = None
    ChecksArch = TRUE
    CutsInSwitch = TRUE
    OperatorSkipsReboot = TRUE
INVARIANTS
    RunningSlotUntouched
    ValidatedBootable
    FallbackKept
    OnlyBoardFirmware
\* A board without a default slot stays in the firmware.
CHECK_DEADLOCK FALSE
