\* One process; three leases, so that one is lost, another lost while its addresses are
\* bound again, and a third follows.
CONSTANTS
  Instance = {s}
  Alone = {}
  Lapse = 1
  MaxTime = 3
  MaxIds = 3
  MaxRenewals = 1
  Nobody = Nobody
SPECIFICATION ServeSpec
PROPERTIES CutWithLease OpensWithLease
CHECK_DEADLOCK FALSE
