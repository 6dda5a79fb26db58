CONSTANTS
  None = None
  r1 = r1
  r2 = r2
  g1 = g1
  g2 = g2
  x1 = x1
  x2 = x2
  a = a
  b = b
  w1 = w1
  w2 = w2
  m1 = m1
  m2 = m2
  d1 = d1
  d2 = d2
  Revisions = {r1, r2}
  SessionOf <- MCSessionOf
  CommitKey <- MCCommitKey
  BuildsOn <- MCBuildsOn
  Views <- Coverages
  Snapshots <- Coverings
  Digests <- MCDigests
  MaxBuilds = 1
  Workers = {w1, w2}
  ExtractionOf <- OneExtraction
  Generations = {g1}
  LockNamings <- OneName
  Drafts = {d1}
  MayBeMalformed = {r2}
  DuplicateCalls = FALSE
  Targets = {"COMMITTED"}
  MaxOutages = 1
  MaxCrashes = 1
  MaxRepairs = 0
SPECIFICATION FairSpec
PROPERTIES
  BegunIsPublished
CHECK_DEADLOCK FALSE
