SPECIFICATION LiveSpec
CONSTANTS
  None = None
  p1 = p1
  p2 = p2
  Callers = {p1, p2}
  Sessions <- MCSessions
  Claims <- MCClaims
  ClaimsOf <- MCClaimsOf
  EntitiesOf <- MCEntitiesOf
  SlotOf <- MCSlotOf
  TextStems <- MCTextStems
  NameStems <- MCNameStems
  EventTime <- MCEventTime
  Posted <- MCPosted
  History <- MCHistory
  Mixes <- MCMixes
  Replies <- MCReplies
  MaxCalls = 3
  MaxFailures = 2
INVARIANTS
  HistoriesEndAlike
  StatsMeanComplete
  ReplacementsGoForward
SYMMETRY Alike
CHECK_DEADLOCK FALSE
