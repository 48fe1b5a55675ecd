SPECIFICATION MigrationSpec
CONSTANTS
    v1 = v1
    v2 = v2
    alien = alien
    Images <- MCImages
    PlatformOf <- MCPlatformOf
    ArchOf <- MCArchOf
    FactoryImage = v1
    NoImage = NoImage
    None = None
    ChecksArch = TRUE
    CutsInSwitch = FALSE
    OperatorSkipsReboot = FALSE
    SizeOf <- MCSizeOf
    BOOT_A_PART_COUNT = 60772
    ROOTFS_A_PART_OFFSET = 154368
    ROOTFS_A_PART_COUNT = 272666
    OLD_ROOTFS_A_PART_OFFSET = 77324
    OLD_ROOTFS_A_PART_COUNT = 289044
    OLD_BOOT_PART_COUNT = 38630
    MigrationChecksArch = TRUE
INVARIANT
    DataKept
\* A cut migration leaves nothing to boot.
CHECK_DEADLOCK FALSE
