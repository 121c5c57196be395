SPECIFICATION Spec
CHECK_DEADLOCK FALSE
SYMMETRY Symmetry
CONSTANTS
    Server = {s, t}
    Agent = {a}
    Configuration = {c}
    Deployment = {d}
    Package = {p}
    Revision = {1, 2}
    Bytes = {1, 2}
    None = None
    Gone = Gone
    Limits <- AllLimits
INVARIANTS
    CatalogueInv
    PinsResolve
    CaughtUp
PROPERTIES
    AssignedBytesKept
