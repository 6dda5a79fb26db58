CONSTANTS
  None = None
  r1 = r1
  r2 = r2
  r3 = r3
  x1 = x1
  k1 = k1
  k2 = k2
  SessionOf <- MCSessionOf
  CommitKey <- MCCommitKey
  ExtractionOf <- MCExtractionOf
  BuildsOn <- NoGenerations
  Views = {}
  Revisions = {r1, r2, r3}
  Generations = {}
  Snapshots = {}
  Digests = {}
  MaxBuilds = 1
  CountKeys = {k1, k2}
  Payloads <- MCPayloads
  MaxFaults = 1
SPECIFICATION ProjectionSpec
CHECK_DEADLOCK FALSE
INVARIANTS
  ProjectionIsTheCommits
PROPERTIES
  ReconciliationRestores
  CommitsAreProjected
