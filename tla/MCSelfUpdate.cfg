SPECIFICATION FairSpec
CONSTANTS
    None = None
    Version <- Versions
    Initial = 1
    Core <- Cores
    Fates <- AnyFate
    Floor = 2
    MAX_ATTEMPTS = 3
    Limit <- AllLimit
INVARIANTS
    UpdateInv
    AlwaysBootable
    ReturnIsProven
PROPERTIES
    UpdateEnds
    RolloutAnswered
