SPECIFICATION MCSpec
CONSTANTS
    SeedPlan <- MCSeedPlan
    DirOf <- MCDirOf
    MaxSecrets = 2
    MaxCount = 4
    Plan <- MCPlan
    Services = {"jellyfin", "arr"}
    MaxEntries = 3
    MaxMishaps = 2
INVARIANTS EnvWhole StoredLoginWorks WiredIsWired AddedOnce
PROPERTIES SecretsStay StartsSeeded SettledIsLeftAlone UsersSettingsKept EventuallyWired
CHECK_DEADLOCK FALSE
