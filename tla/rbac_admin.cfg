CONSTANTS
  Replicas = {a, b}
  Observed = {}
  Roles = {k1}
  Readers = {c1}
  Writers = {w1, w2}
  NoReader = noReader
  MaxEpoch = 2
  MaxSets = 1
  Ops = {"role", "permUpdate", "feature"}
  Faults = {}
SPECIFICATION AdminSpec
SYMMETRY AdminSymmetry
INVARIANT QuiescentFresh
