CONSTANTS
  Instance = {1}
  Decision = {1, 2}
  MaxLeases = 2
  Capacity = 2
  Setups <- AllSetups
  LateWrites = FALSE
  Archive = TRUE
  Budget = 2
SPECIFICATION PruneSpec
INVARIANTS AuditInv RecordHolds
PROPERTIES KeepsPromise
CHECK_DEADLOCK FALSE
