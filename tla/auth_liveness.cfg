CONSTANTS
  Users = {u1}
  Requests = {r1, r2}
  NoReq = noReq
  MaxSessions = 2
  MaxPassword = 1
  MaxAge = 0
  MaxLockExpiries = 1
  LockoutThreshold = 1
  ClientOps = {"login", "wrongLogin", "refresh", "changePassword", "deactivate", "activate"}
  Faults = {}
SPECIFICATION FairSpec
 
PROPERTY RequestsAnswered
CHECK_DEADLOCK FALSE
