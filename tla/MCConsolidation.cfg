CONSTANTS
  Entities <- MCEntities
  KeyOf <- MCKeyOf
  NoKey = ""
  NoSlot <- MCNoSlot
  GenerationOf <- OneGeneration
  Texts <- MCTexts
  Whitespace = {" "}
  Noise = {"*"}
  ChunkBytes = 4
  Pinned = "current"
  Commits = {1, 2, 3}
  Ordinal <- MCOrdinal
  RawExtractions <- MCRawExtractions
  Interrupted = {1}
  Replies <- MCReplies
  Stranger <- MCStranger
  MayFail = {2}
  Fragile = {"SnapshotRoot", "SnapshotToken", "SNAPSHOT_FILLS", "SNAPSHOT_HAS_CLAIM"}
  MaxDamages = 1
SPECIFICATION ConsolidationSpec
CHECK_DEADLOCK FALSE
INVARIANTS
  ConsolidationPlans
  ReadBackIsExact
  IndexIsThePlan
  EvidenceCanBeQuoted
PROPERTIES
  ViewIsThePartition
  ReplacementEnds
