SPECIFICATION Spec
CHECK_DEADLOCK FALSE
CONSTANTS
    Instance = {i, j}
    Limits <- OnlyWrite
INVARIANTS
    WrittenIsStored
