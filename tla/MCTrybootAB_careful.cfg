SPECIFICATION FairSpec
CONSTANTS
    v1 = v1
    v2 = v2
    alien = alien
    Images <- MCImages
    PlatformOf <- MCPlatformOf
    ArchOf <- MCArchOf
    FactoryImage = v1
    NoImage = NoImage
    None = None
    ChecksArch = TRUE
    CutsInSwitch = FALSE
    OperatorSkipsReboot = FALSE
INVARIANTS
    AlwaysBootable
    UpgradeHarmless
    ValidatedUpgradable
    TrialRollsBack
PROPERTIES
    ComesUp
