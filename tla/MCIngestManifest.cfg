CONSTANTS
  None = None
  r1 = r1
  r2 = r2
  g1 = g1
  g2 = g2
  v1 = v1
  d1 = d1
  x1 = x1
  a = a
  b = b
  SessionOf <- MCSessionOf
  CommitKey <- MCCommitKey
  ExtractionOf <- MCExtractionOf
  BuildsOn <- MCBuildsOn
  Views = {v1}
  Revisions = {r1, r2}
  Generations = {g1, g2}
  Snapshots <- Competing
  Digests = {d1}
  MaxBuilds = 2
SPECIFICATION Spec
INVARIANTS
  IndInv
PROPERTIES
  NothingForgotten
  PublicationIsAtomic
  ImplementsQueryMemory
