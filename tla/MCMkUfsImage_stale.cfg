\* One conversion: what is left of the source's backup table in the image.
CONSTANTS
    MbrLimit = 25
    Tools = {"rubik_pi3", "dragon_q6a"}
    Source <- Images
    FwupSources = {"plain", "permuted", "tight"}
    Arguments <- MCArguments
    MaxInvocations = 1
SPECIFICATION Spec
INVARIANT StaleBackupGone
CHECK_DEADLOCK FALSE
