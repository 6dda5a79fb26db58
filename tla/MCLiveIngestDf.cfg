SPECIFICATION LiveSpec
CONSTANTS
  None = None
  p1 = p1
  Callers = {p1}
  Sessions <- MCSessions
  Claims <- MCClaims
  ClaimsOf <- MCClaimsOf
  EntitiesOf <- MCEntitiesOf
  SlotOf <- MCSlotOf
  TextStems <- MCTextStems
  NameStems <- MCNameStems
  EventTime <- MCEventTime
  Posted <- MCPosted
  History <- NoHistory
  Replies <- MCReplies
  Mixes <- MCMixes
  MaxCalls = 2
  MaxFailures = 0
INVARIANTS
  DfCountsTheHits
CHECK_DEADLOCK FALSE
