CONSTANTS
  Users = {u1}
  Requests = {r1, r2}
  NoReq = noReq
  MaxSessions = 2
  MaxPassword = 1
  MaxAge = 0
  MaxLockExpiries = 0
  LockoutThreshold = 2
  ClientOps = {"login", "refresh", "changePassword"}
  Faults = {}
SPECIFICATION Spec
PROPERTY PasswordChangeEndsSessions
