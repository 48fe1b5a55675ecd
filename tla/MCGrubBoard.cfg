SPECIFICATION BoardSpec
CONSTANTS
    v1 = v1
    v2 = v2
    Images <- MCImages
    PlatformOf <- MCPlatformOf
    ArchOf <- MCArchOf
    FactoryImage = v1
    NoImage = NoImage
    None = None
    TracksSlotValidation = TRUE
    CutsInSwitch = TRUE
    OperatorSkipsReboot = FALSE
PROPERTY
    HandOver
\* A board whose selected slot was overwritten stays at the GRUB prompt.
CHECK_DEADLOCK FALSE
