CONSTANTS
  Replicas = {a, b}
  Requests = {c1}
  Admins = {w}
  Tokens = {t}
  UserTTL = 1
  TokenTTL = 2
  Slowness = 1
  Changes = {"deactivate", "lock", "loseRole", "logout"}
  Faults = {"redis", "restart"}
SPECIFICATION Spec
SYMMETRY AccessSymmetry
INVARIANTS TypeOK RevokedIsRefused DecidedOnRecentRow OwnReplicaIsFresh RolesDecide
