\* Two processes: one that must be alone, one that shares the database.
CONSTANTS
  Instance = {a, s}
  Alone = {a}
  Lapse = 2
  MaxTime = 3
  MaxIds = 2
  MaxRenewals = 1
  Nobody = Nobody
SPECIFICATION Spec
INVARIANTS LeaseInv LeaseProvable AloneIsAlone
PROPERTIES TakeoverClosesChain
CHECK_DEADLOCK FALSE
