SPECIFICATION Spec
CONSTANTS
    v1 = v1
    v2 = v2
    alien = alien
    Images <- MCImages
    PlatformOf <- MCPlatformOf
    ArchOf <- MCArchOf
    FactoryImage = v1
    NoImage = NoImage
    None = None
    TracksSlotValidation = TRUE
    CutsInSwitch = TRUE
    OperatorSkipsReboot = TRUE
INVARIANTS
    ActiveSlotUpgradable
    OfferedSlotTruthful
    OnlyBoardFirmware
    SomeSlotValidated
    CutSwitchBootable
PROPERTIES
    ActiveRunningSlotSpared
    ImplementsInventory
\* A board whose selected slot was overwritten stays at the GRUB prompt.
CHECK_DEADLOCK FALSE
