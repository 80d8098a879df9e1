CONSTANTS
  Replicas = {p}
  r1 = r1
  r2 = r2
  Requests = {r1, r2}
  Users = {u1}
  Nobody = nobody
  Kinds <- MCKinds
  Deployments = {TRUE, FALSE}
  MaxStalls = 1
  BatchSize = 1
  MaxNights = 1
  MaxFaults = 3
  Faults = {"redis", "db", "crash", "stop", "header"}
SPECIFICATION FairSpec
INVARIANTS TypeOK RecordsNameTheirRequest  CompletedIsWritten
PROPERTIES PurgeClears AcceptedIsWritten ShutdownEnds
CHECK_DEADLOCK FALSE
