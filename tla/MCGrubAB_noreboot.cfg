SPECIFICATION Spec
CONSTANTS
    v1 = v1
    v2 = v2
    alien = alien
    Images <- MCImages
    PlatformOf <- MCPlatformOf
    ArchOf <- MCArchOf
    FactoryImage = v1
    NoImage = NoImage
    None = None
    TracksSlotValidation = FALSE
    CutsInSwitch = FALSE
    OperatorSkipsReboot = TRUE
INVARIANT
    UpgradeSparesRunning
