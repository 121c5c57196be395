SPECIFICATION FairSpec
CONSTANTS
    Hash = {A, B}
    None = None
    SeqSpan = 4
    Capacity = 2
    Setups <- AllSetups
INVARIANTS
    LoopInv
    InStep
PROPERTIES
    LoopCloses
