CONSTANTS
  Users = {u1, u2}
  Requests = {r1, r2}
  NoReq = noReq
  MaxSessions = 3
  MaxPassword = 0
  MaxAge = 0
  MaxLockExpiries = 0
  LockoutThreshold = 1
  ClientOps = {"login", "refresh", "logout", "logoutAll"}
  Faults = {"cache"}
SPECIFICATION Spec
SYMMETRY RequestSymmetry
INVARIANT FamilySingleActive
PROPERTIES RevokedForItsOwner MassRevocationCovers ImplementsFamilies
