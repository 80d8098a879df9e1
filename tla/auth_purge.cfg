CONSTANTS
  Users = {u1}
  Requests = {r1, r2}
  NoReq = noReq
  MaxSessions = 3
  MaxPassword = 0
  MaxAge = 2
  MaxLockExpiries = 0
  LockoutThreshold = 1
  ClientOps = {"login", "refresh", "logout", "purge"}
  Faults = {"db"}
SPECIFICATION Spec
SYMMETRY RequestSymmetry
INVARIANTS TypeOK RotationLinked AuthInv
