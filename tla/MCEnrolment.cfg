SPECIFICATION FairSpec
CHECK_DEADLOCK FALSE
CONSTANTS
    s = s
    t = t
    g = g
    h = h
    a = a
    b = b
    None = None
    Server = {s, t}
    Host = {g, h}
    Bootstrap = {a, b}
    BootstrapOf <- Presents
    MAX_PENDING = 1
    MaxPerBootstrap = 1
    MaxTime = 3
    Limits <- AllLimits
INVARIANTS
    EnrolmentInv
    SignedOnce
PROPERTIES
    DecisionStands
    WindowHolds
    Collected
