SPECIFICATION Spec
CONSTANTS
    None = None
    Version <- Versions
    Initial = 1
    Core <- Cores
    Fates <- SecondDies
    Floor = 2
    MAX_ATTEMPTS = 3
    Limit <- LoopLimit
INVARIANTS
    FailedIsNotRepeated
