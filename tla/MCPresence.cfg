SPECIFICATION Spec
CHECK_DEADLOCK FALSE
CONSTANTS
    Instance = {i, j}
    Limits <- AllLimits
INVARIANTS
    PresenceInv
    CarrierIsHolder
    RowIsCurrent
