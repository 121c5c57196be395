SPECIFICATION Spec
CHECK_DEADLOCK FALSE
CONSTANTS
    Instance = {i, j}
    Limits <- OnlyLease
PROPERTIES
    OnlyDuplicatesRekeyed
