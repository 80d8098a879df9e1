CONSTANTS
  Replicas = {a}
  Observed = {}
  Roles = {k1}
  Readers = {c1, c2}
  Writers = {w1}
  NoReader = noReader
  MaxEpoch = 1
  MaxSets = 1
  Faults = {"incr", "select", "redis", "restart", "ttl"}
SPECIFICATION FairSpec
PROPERTY ReadsAnswered
