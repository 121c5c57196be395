SPECIFICATION Spec
CHECK_DEADLOCK FALSE
CONSTANTS
    sa = sa
    sb = sb
    near = near
    far = far
    boot = boot
    first = first
    renewal = renewal
    second = second
    provisioned = provisioned
    ua = ua
    ub = ub
    None = None
    Server = {sa, sb}
    Host = {near, far}
    Agent = {ua, ub}
    Certificate = {boot, first, renewal, second, provisioned}
    HostOf <- Hosts
    Predecessor <- Predecessors
    Bootstrap <- Bootstraps
    NotAfter <- Ends
    MAX_ISSUED = 3
    ENROLMENT_RESERVE = 1
    MAX_DESCENDANTS_PER_ROOT = 2
    MAX_PER_HOST = 2
    MAX_UIDS_PER_HOST = 1
    MAX_REVOCATIONS = 2
    RELOAD_SWAPS_REFUSED = 2
    MaxTime = 3
    Limits <- AllLimits
SYMMETRY Alike
INVARIANTS
    LedgerInv
    AnsweredIsHeld
    VersionIsHeld
PROPERTIES
    HostsKept
    SignedFromStore
