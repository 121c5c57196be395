SPECIFICATION FairSpec
CONSTANTS
    Version = {1, 2, 3}
    Config = {11, 12}
    Bad = {12}
    Fates <- MCFates
    Starts <- MCStarts
    MAX_CRASH_RESTARTS = 2
    Capacity = 2
    None = None
    Torn = Torn
    Limits <- MCLimits
CHECK_DEADLOCK FALSE
INVARIANTS
    PackageInv
    SettledOnce
PROPERTIES
    ConfigDecided
    PackageDecided
    RunnerRests
