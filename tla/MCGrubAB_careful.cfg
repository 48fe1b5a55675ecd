SPECIFICATION FairSpec
CONSTANTS
    v1 = v1
    v2 = v2
    alien = alien
    Images <- MCImages
    PlatformOf <- MCPlatformOf
    ArchOf <- MCArchOf
    FactoryImage = v1
    NoImage = NoImage
    None = None
    TracksSlotValidation = TRUE
    CutsInSwitch = FALSE
    OperatorSkipsReboot = FALSE
INVARIANTS
    AlwaysBootable
    RunningSlotUntouched
PROPERTIES
    SwitchTakesEffect
