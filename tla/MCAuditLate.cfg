CONSTANTS
  Instance = {1}
  Decision = {1, 2}
  MaxLeases = 2
  Capacity = 2
  Setups <- LateSetup
  LateWrites = TRUE
  Archive = TRUE
  Budget = 2
SPECIFICATION PruneSpec
INVARIANT WrittenOnce
CHECK_DEADLOCK FALSE
