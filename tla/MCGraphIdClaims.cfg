CONSTANTS
  None = None
  k1 = k1
  k2 = k2
  k3 = k3
  p2 = p2
  i1 = i1
  i2 = i2
  Identities = {k1, k2, k3, p2}
  Reduced <- MCReduced
  Writers = {w1, w2}
SPECIFICATION GraphIdSpec
SYMMETRY Alike
INVARIANTS
  ClaimOwnsRecord
PROPERTIES
  ClearedAfterRebuild
