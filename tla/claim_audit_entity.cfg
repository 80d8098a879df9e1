CONSTANTS
  Replicas = {p}
  Requests = {r1}
  Users = {u1}
  Nobody = nobody
  Kinds <- AllKinds
  Deployments = {TRUE}
  MaxStalls = 1
  BatchSize = 1
  MaxNights = 0
  MaxFaults = 0
  Faults = {}
SPECIFICATION Spec
INVARIANT RecordsNameTheirEntity
CHECK_DEADLOCK FALSE
