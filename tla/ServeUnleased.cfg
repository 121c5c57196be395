\* One process, whose lease is lost while it binds its addresses again.
CONSTANTS
  Instance = {s}
  Alone = {}
  Lapse = 1
  MaxTime = 3
  MaxIds = 3
  MaxRenewals = 1
  Nobody = Nobody
SPECIFICATION ServeSpec
PROPERTY CutWithoutLease
CHECK_DEADLOCK FALSE
