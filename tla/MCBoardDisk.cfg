\* From a blank disk: two conversions, flashings in any order, then the tasks.
CONSTANTS
    MbrLimit = 25
    Tools = {"rubik_pi3"}
    Source <- TwoImages
    FwupSources = {"plain", "permuted"}
    Arguments <- BoardArguments
    MaxInvocations = 2
    DiskBlocks = 240
    EnvAt = 48
    ResetBlocks = 2
SPECIFICATION BoardSpec
INVARIANTS
    SlotsSurvive
    TablesAgree
    DataKept
    StaleTableSafe
PROPERTY ResetInsideData
CHECK_DEADLOCK FALSE
