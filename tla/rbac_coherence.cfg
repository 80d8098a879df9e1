CONSTANTS
  Replicas = {a, b}
  Observed = {a}
  Roles = {k1}
  Readers = {c1, c2}
  Writers = {w1}
  NoReader = noReader
  MaxEpoch = 1
  MaxSets = 1
  Ops = {"permRemove"}
  Faults = {"redis", "roles", "restart"}
SPECIFICATION AdminSpec
SYMMETRY AdminSymmetry
INVARIANTS TypeOK CacheCoherent FreshOnOwnReplica CacheInv
